---- MODULE Spec2Model ----
(***************************************************************************)
(* Process channels of macos-control-mcp.                                  *)
(*                                                                         *)
(* Two persistent interpreter processes are multiplexed by the server:     *)
(*   - the script-engine channel  (runAppleScript, utils/applescript.ts)   *)
(*   - the code-execution channel (runPython,      utils/python.ts)        *)
(*                                                                         *)
(* The server is a single-threaded event loop: every action below is one   *)
(* callback (a call's synchronous part, a stream 'data' event, a timer, a  *)
(* child-process 'exit' event) or one step of an interpreter process.      *)
(*                                                                         *)
(* Bytes are modelled as tokens.  A token records its kind and the request *)
(* in response to which the interpreter emitted it (field r), so that the  *)
(* provenance of what a call accumulates can be stated.                    *)
(***************************************************************************)
EXTENDS Naturals, Sequences, FiniteSets, TLC

\* ------------------------------------------------------------------ bounds
\* Number of channel calls (runAppleScript and runPython together) of one
\* server run that are explored.
MaxCalls == 2
\* Largest number of tokens one 'data' event carries.
MaxChunk == 3
\* Largest correlation token for which the sentinel text is compared with the
\* sentinel texts of other calls.
MaxId == 12
\* Largest number of phrases and blanks of a diagnostic text given to
\* classifyError.
MaxPhrases == 2
\* Largest number of request lines given to the helper's read-eval loop.
MaxRequests == 3
\* Largest number of actions of one batchActions call.
MaxActions == 2
MaxModifiers == 2
\* The same for the helper's output stream, where a line is two tokens (its
\* text and its newline): two lines fit in one 'data' event.
PyMaxChunk == 4

\* "No process": the null value of the cached handles.
NULL == 0

VARIABLES
    osaProcess,   \* applescript.ts `osaProcess`: cached handle (index in osaProcs) or NULL
    requestId,    \* applescript.ts `requestId`
    osaProcs,     \* every osascript process spawned so far, in spawn order
    osaCalls,     \* every runAppleScript call so far, in submission order
    helperProcess,\* python.ts `helperProcess`: cached handle (index in pyProcs) or NULL
    pyProcs,      \* every helper process spawned so far, in spawn order
    pyCalls,      \* every runPython call so far, in submission order
    mainPc,       \* position of main(): "connect" | "serving"
    crashed,      \* the server died of an uncaught exception
    batch,        \* the batchActions call in progress: its arguments, locals and position
    tool          \* the pressKey / openUrl call in progress: its arguments and position

osaVars == <<osaProcess, requestId, osaProcs, osaCalls>>
pyVars  == <<helperProcess, pyProcs, pyCalls, mainPc, crashed>>
vars    == <<osaProcess, requestId, osaProcs, osaCalls,
             helperProcess, pyProcs, pyCalls, mainPc, crashed, batch, tool>>

\* ------------------------------------------------------------ small helpers
Prefix(s, n) == SubSeq(s, 1, n)
Suffix(s, n) == SubSeq(s, n + 1, Len(s))

\* Calls of `calls` that had settled already: recorded at a call's submission.
SettledCalls(calls) == {c \in DOMAIN calls : calls[c].state \in {"resolved", "rejected"}}

\* ============================================================ batch actions

\* The actions of BatchAction whose functions are part of the sources at hand
\* (click_web_element and fill_form_field call functions that are not).
ActionKinds ==
    {"click", "double_click", "click_element", "type", "key", "scroll",
     "launch_app", "open_url", "set_clipboard", "execute_javascript"}

\* The actions given to batchActions.  `arg` tells apart the arguments on
\* which an action's function branches before it reaches a channel: a key
\* name that KEY_CODES does not hold, a URL that is neither http nor https, a
\* text without characters.
BatchInputs ==
    {[action |-> k, arg |-> "plain"] : k \in ActionKinds}
        \cup {[action |-> "key", arg |-> "unknown_key"],
              [action |-> "open_url", arg |-> "bad_scheme"],
              [action |-> "type", arg |-> "empty"]}

\* What the function of action a throws before it has called a channel:
\* pressKey for an unknown key, openUrl for a URL of another scheme.
PreError(a) ==
    CASE a.action = "key" /\ a.arg = "unknown_key" -> "unknown_key"
      [] a.action = "open_url" /\ a.arg = "bad_scheme" -> "bad_scheme"
      [] OTHER -> "none"

\* The channel the function of action a calls: clickAt, doubleClickAt and
\* scroll call runPython; the others call runAppleScript, typeText only when
\* there is something to type.
Channel(a) ==
    CASE PreError(a) # "none" -> "none"
      [] a.action = "type" /\ a.arg = "empty" -> "none"
      [] a.action \in {"click", "double_click", "scroll"} -> "py"
      [] OTHER -> "osa"

\* What the function of action a can throw after its channel call has been
\* resolved: clickElement when the script answers "not_found", launchApp
\* when `open -a` fails.
PostErrors(a) ==
    CASE a.action = "click_element" -> {"not_found"}
      [] a.action = "launch_app" -> {"open_failed"}
      [] OTHER -> {}

\* The text an action's function returns (told apart by the action only).
Text(a) == a.action

\* Mutant of BatchOptions: executeAction calls the click functions without
\* options.
BatchOptionsNone == [skipScreenshot |-> FALSE]

\* The options executeAction passes to clickAt, doubleClickAt, clickElement.
BatchOptions == [skipScreenshot |-> TRUE]

NoCall == [ch |-> "none", c |-> 0]
NoResult ==
    [success |-> FALSE, actionsCompleted |-> 0, actionsTotal |-> 0,
     results |-> <<>>, error |-> "none"]

\* No batchActions call is in progress.
BatchIdle ==
    [pc |-> "idle", actions |-> <<>>, delay |-> FALSE, i |-> 0, results |-> <<>>,
     error |-> "none", call |-> NoCall, issued |-> <<>>, log |-> <<>>,
     outcome |-> "none", result |-> NoResult]

\* batchActions(actions, delayBetweenMs) at the top of its loop.  `pc`:
\* "loop" (about to call executeAction(actions[i])), "await" (awaiting the
\* channel call of that action), "delay" and "settle" (the two timers),
\* "catch" and "final" (awaiting captureScreenshot in the catch clause and
\* after the loop), "done".  `i` is the loop variable (actions are numbered
\* from 1 here, so action i + 1 is actions[i] of the code).  `issued` and
\* `log` are history: the channel calls made for the batch, and its events.
BatchNew(actions, delay) ==
    [BatchIdle EXCEPT !.pc = "loop", !.actions = actions, !.delay = delay]

\* An event of the batch: action n was started ("start"), returned its text x
\* ("end") or threw x ("fail"); a screenshot capture made after n actions
\* ("shot") by x, which is "batch" or the action that made it.
Event(e, n, x) == [e |-> e, n |-> n, x |-> x]

\* clickAt, doubleClickAt and clickElement capture a screenshot of their own
\* unless options.skipScreenshot is set.
ActionCaptures(a, options) ==
    a.action \in {"click", "double_click", "click_element"} /\ ~options.skipScreenshot

\* executeAction(actions[i]) has returned text: results.push(text); then the
\* inter-action delay, the next turn of the loop, or the end of the loop.
BatchCompleted(b, a) ==
    LET n == b.i + 1
        shot == IF ActionCaptures(a, BatchOptions) THEN <<Event("shot", n, a.action)>> ELSE <<>>
    IN  [b EXCEPT !.results = Append(@, Text(a)),
                  !.log = @ \o shot \o <<Event("end", n, Text(a))>>,
                  !.call = NoCall,
                  !.i = n,
                  !.pc = IF n < Len(b.actions)
                            THEN (IF b.delay THEN "delay" ELSE "loop")
                            ELSE "settle"]

\* Mutant of BatchFailed: the error is recorded and the loop goes on.
BatchFailedContinues(b, err) ==
    LET n == b.i + 1 IN
    [b EXCEPT !.error = err,
              !.log = Append(@, Event("fail", n, err)),
              !.call = NoCall,
              !.i = n,
              !.pc = IF n < Len(b.actions) THEN "loop" ELSE "catch"]

\* executeAction(actions[i]) has thrown err: the catch clause is entered and
\* the loop is left.
BatchFailed(b, err) ==
    [b EXCEPT !.error = err,
              !.log = Append(@, Event("fail", b.i + 1, err)),
              !.call = NoCall,
              !.pc = "catch"]

\* The caller of a channel: a batch at the call of its next action, or (no
\* batch in progress) any other tool.
BatchMayCall(ch) ==
    \/ batch.pc = "idle"
    \/ /\ batch.pc = "loop"
       /\ batch.i < Len(batch.actions)
       /\ Channel(batch.actions[batch.i + 1]) = ch

\* Mutant of BatchIssue: executeAction is not awaited, the action counts as
\* completed once its channel call is made.
BatchIssueNoAwait(ch, c) ==
    IF batch.pc = "idle" THEN batch
    ELSE BatchCompleted(
            [batch EXCEPT !.issued = Append(@, [ch |-> ch, c |-> c]),
                          !.log = Append(@, Event("start", batch.i + 1, "none"))],
            batch.actions[batch.i + 1])

\* `await executeAction(actions[i])` up to the channel call c of the action's
\* function: the batch waits for that call to settle.
BatchIssue(ch, c) ==
    IF batch.pc = "idle" THEN batch
    ELSE [batch EXCEPT !.pc = "await",
                       !.call = [ch |-> ch, c |-> c],
                       !.issued = Append(@, [ch |-> ch, c |-> c]),
                       !.log = Append(@, Event("start", batch.i + 1, "none"))]

\* Mutant of BatchResult: the failed action is counted as completed.
BatchResultCountsFailed(b) ==
    IF b.pc = "catch"
    THEN [success |-> FALSE,
          actionsCompleted |-> b.i + 1,
          actionsTotal |-> Len(b.actions),
          results |-> b.results,
          error |-> b.error]
    ELSE [success |-> TRUE,
          actionsCompleted |-> Len(b.actions),
          actionsTotal |-> Len(b.actions),
          results |-> b.results,
          error |-> "none"]

\* The BatchResult object built by the two return statements of
\* batchActions: in the catch clause (i is the index of the failed action,
\* error is String(err)) and after the loop (no error member, "none" here).
BatchResult(b) ==
    IF b.pc = "catch"
    THEN [success |-> FALSE,
          actionsCompleted |-> b.i,
          actionsTotal |-> Len(b.actions),
          results |-> b.results,
          error |-> b.error]
    ELSE [success |-> TRUE,
          actionsCompleted |-> Len(b.actions),
          actionsTotal |-> Len(b.actions),
          results |-> b.results,
          error |-> "none"]

\* ==================================================== key and URL tools

\* KEY_CODES of input.ts.
KEY_CODES ==
    "return" :> 36 @@ "enter" :> 36 @@ "tab" :> 48 @@ "space" :> 49 @@
    "delete" :> 51 @@ "backspace" :> 51 @@ "escape" :> 53 @@ "esc" :> 53 @@
    "left" :> 123 @@ "right" :> 124 @@ "down" :> 125 @@ "up" :> 126 @@
    "f1" :> 122 @@ "f2" :> 120 @@ "f3" :> 99 @@ "f4" :> 118 @@ "f5" :> 96 @@
    "f6" :> 97 @@ "f7" :> 98 @@ "f8" :> 100 @@ "f9" :> 101 @@ "f10" :> 109 @@
    "f11" :> 103 @@ "f12" :> 111 @@
    "home" :> 115 @@ "end" :> 119 @@ "pageup" :> 116 @@ "pagedown" :> 121 @@
    "forwarddelete" :> 117 @@
    "a" :> 0 @@ "b" :> 11 @@ "c" :> 8 @@ "d" :> 2 @@ "e" :> 14 @@ "f" :> 3 @@
    "g" :> 5 @@ "h" :> 4 @@ "i" :> 34 @@ "j" :> 38 @@ "k" :> 40 @@ "l" :> 37 @@
    "m" :> 46 @@ "n" :> 45 @@ "o" :> 31 @@ "p" :> 35 @@ "q" :> 12 @@ "r" :> 15 @@
    "s" :> 1 @@ "t" :> 17 @@ "u" :> 32 @@ "v" :> 9 @@ "w" :> 13 @@ "x" :> 7 @@
    "y" :> 16 @@ "z" :> 6 @@
    "0" :> 29 @@ "1" :> 18 @@ "2" :> 19 @@ "3" :> 20 @@ "4" :> 21 @@
    "5" :> 23 @@ "6" :> 22 @@ "7" :> 26 @@ "8" :> 28 @@ "9" :> 25

\* MODIFIER_MAP of input.ts.
MODIFIER_MAP ==
    "command" :> "command down" @@ "cmd" :> "command down" @@
    "shift" :> "shift down" @@
    "option" :> "option down" @@ "alt" :> "option down" @@
    "control" :> "control down" @@ "ctrl" :> "control down"

\* The key names given to pressKey: names of the table in both cases, names
\* it does not hold, the empty name, and the name of a property every
\* JavaScript object inherits.
KeyNames == {"a", "A", "Return", "f13", "", "constructor"}

\* The modifier names given to pressKey.
ModifierNames == {"cmd", "Shift", "hyper", "constructor"}

\* The `app` argument of pressKey: absent, empty, or the name of an app.
AppNames == {"none", "", "Notes"}

\* String.prototype.toLowerCase on the names above.
ToLowerCase(s) ==
    CASE s = "A" -> "a"
      [] s = "Return" -> "return"
      [] s = "Shift" -> "shift"
      [] OTHER -> s

\* The lower-case names of the properties an object literal inherits from
\* Object.prototype.
ObjectPrototype == {"constructor", "__proto__"}

\* table[name] for an object literal: the own property, else the inherited
\* one (a function or an object, neither undefined nor falsy), else undefined.
Lookup(table, name) ==
    IF name \in DOMAIN table THEN [type |-> "own", value |-> table[name]]
    ELSE IF name \in ObjectPrototype THEN [type |-> "inherited"]
    ELSE [type |-> "undefined"]

\* `if (app)`: an absent or empty app name is falsy.
Truthy(app) == app \notin {"none", ""}

\* pressKey after the focus step: the error it throws ("none" if it builds
\* its script).  The key is looked up first, then the modifiers in order.
PressKeyError(key, modifiers) ==
    IF Lookup(KEY_CODES, ToLowerCase(key)).type = "undefined" THEN "unknown_key"
    ELSE IF \E k \in DOMAIN modifiers :
               Lookup(MODIFIER_MAP, ToLowerCase(modifiers[k])).type = "undefined"
         THEN "unknown_modifier"
    ELSE "none"

\* The script pressKey builds: key code <keyCode> [using <modString>].
PressKeyScript(key, modifiers) ==
    [tell |-> "System Events",
     keyCode |-> Lookup(KEY_CODES, ToLowerCase(key)),
     using |-> [k \in DOMAIN modifiers |-> Lookup(MODIFIER_MAP, ToLowerCase(modifiers[k]))]]

\* The URLs given to openUrl, as texts of characters: both schemes in
\* several spellings, other schemes, and texts that hold "http://" but do
\* not begin with it.
Urls ==
    {<<"h", "t", "t", "p", ":", "/", "/", "x">>,
     <<"h", "t", "t", "p", "s", ":", "/", "/", "x">>,
     <<"H", "T", "T", "P", ":", "/", "/", "x">>,
     <<"H", "t", "t", "p", "S", ":", "/", "/", "x">>,
     <<"h", "t", "t", "p", ":", "/", "/">>,
     <<"h", "t", "t", "p", ":", "/", "/", "x", "\"", "x">>,
     <<"h", "t", "t", "p", ":", "/", "x">>,
     <<"h", "t", "t", "p", "s", "s", ":", "/", "/", "x">>,
     <<"h", "t", "t", "p", "/", "/", "x">>,
     <<"h", "t", "t", ":", "/", "/", "x">>,
     <<" ", "h", "t", "t", "p", ":", "/", "/", "x">>,
     <<"x", "h", "t", "t", "p", "s", ":", "/", "/", "x">>,
     <<"f", "t", "p", ":", "/", "/", "h", "t", "t", "p", ":", "/", "/", "x">>,
     <<"f", "i", "l", "e", ":", "/", "/", "/", "x">>,
     <<"x">>,
     <<>>}

\* The `browser` argument of openUrl: absent or a name.
Browsers == {"none", "safari", "chrome", "Google Chrome"}

\* detectBrowser: Chrome if the lower-cased name includes "chrome".
DetectBrowser(browser) ==
    IF browser \in {"chrome", "Google Chrome"} THEN "Google Chrome" ELSE "Safari"

\* The canonical form of a character under the regular expression flag i.
Fold(ch) ==
    CASE ch = "H" -> "h"
      [] ch = "T" -> "t"
      [] ch = "P" -> "p"
      [] ch = "S" -> "s"
      [] OTHER -> ch

\* Text s begins with text p.
StartsWith(s, p) == Len(p) <= Len(s) /\ SubSeq(s, 1, Len(p)) = p

\* Mutant of SchemeTest: the expression without the anchor ^.
SchemeTestUnanchored(url) ==
    LET folded == [k \in DOMAIN url |-> Fold(url[k])]
    IN  \E n \in 0..Len(url) :
          \/ StartsWith(Suffix(folded, n), <<"h", "t", "t", "p", ":", "/", "/">>)
          \/ StartsWith(Suffix(folded, n), <<"h", "t", "t", "p", "s", ":", "/", "/">>)

\* /^https?:\/\//i.test(url): at the start of the text, "http", an optional
\* "s" and "://", letters in either case.
SchemeTest(url) ==
    LET folded == [k \in DOMAIN url |-> Fold(url[k])]
    IN  \/ StartsWith(folded, <<"h", "t", "t", "p", ":", "/", "/">>)
        \/ StartsWith(folded, <<"h", "t", "t", "p", "s", ":", "/", "/">>)

\* escapeForAppleScript on one character, and on a text.
EscapeChar(ch) ==
    CASE ch = "\\" -> <<"\\", "\\">>
      [] ch = "\"" -> <<"\\", "\"">>
      [] OTHER -> <<ch>>

RECURSIVE EscapeForAppleScript(_)
EscapeForAppleScript(str) ==
    IF str = <<>> THEN <<>>
    ELSE EscapeChar(Head(str)) \o EscapeForAppleScript(Tail(str))

\* The script openUrl builds: tell application b / activate / open location.
OpenUrlScript(url, browser) ==
    [tell |-> DetectBrowser(browser),
     commands |-> <<"activate", "open location">>,
     location |-> EscapeForAppleScript(url)]

\* No pressKey / openUrl call is in progress.
ToolIdle ==
    [pc |-> "idle", name |-> "none", args |-> <<>>, script |-> <<>>, call |-> 0,
     log |-> <<>>, outcome |-> "none", error |-> "none"]

\* A call of the tool function `name` at its first statement.  `pc`: "start",
\* "validate" (pressKey behind its focus step), "script" (about to call
\* runAppleScript), "await" (awaiting that call), "done".  `log` is history:
\* the side effects of the call, `open -a` runs and submitted scripts.
ToolNew(name, args) == [ToolIdle EXCEPT !.pc = "start", !.name = name, !.args = args]

\* The tool function throws err: its promise is rejected.
ToolThrows(t, err) == [t EXCEPT !.pc = "done", !.outcome = "rejected", !.error = err]

\* The caller of runAppleScript: the tool function at its call, or (no tool
\* call in progress) any other caller.
ToolMayCall == tool.pc \in {"idle", "script"}

\* `await runAppleScript(script)` of the tool function: call c is made with
\* the script it has built.
ToolIssue(c) ==
    IF tool.pc = "idle" THEN tool
    ELSE [tool EXCEPT !.pc = "await", !.call = c,
                      !.log = Append(@, [e |-> "script", x |-> tool.script])]

\* ============================================================ script engine

\* Diagnostic texts the interpreter is taken to write on its side channel.
DiagTexts == {"not allowed assistive access", "execution error"}

\* The phrases of which the diagnostic texts given to classifyError are
\* composed: the six patterns it looks for, a phrase that differs from a
\* pattern in case only, and a phrase that holds no pattern.
Phrases ==
    {"not allowed assistive access", "accessibility",
     "application isn't running", "Application isn't running",
     "Can't get", "doesn't understand",
     "Accessibility", "execution error"}

\* String.prototype.includes for the phrases above and the patterns of
\* classifyError: no pattern occurs in another phrase than itself, and the
\* comparison is case-sensitive.
Includes(text, pattern) == text = pattern

IsWhitespace(tok) == tok.k = "ws"

\* String.prototype.trim on a token sequence.
RECURSIVE TrimLeft(_)
TrimLeft(s) ==
    IF s # <<>> /\ IsWhitespace(Head(s)) THEN TrimLeft(Tail(s)) ELSE s

RECURSIVE TrimRight(_)
TrimRight(s) ==
    IF s # <<>> /\ IsWhitespace(s[Len(s)]) THEN TrimRight(Prefix(s, Len(s) - 1)) ELSE s

Trim(s) == TrimRight(TrimLeft(s))

\* classifyError: ordered substring rules over the trimmed diagnostic text.
HasPattern(buf, pattern) ==
    \E i \in DOMAIN buf : buf[i].k = "diag" /\ Includes(buf[i].m, pattern)

\* Mutant of ClassifyError: the rules are tried in the opposite order.
ClassifyErrorLastRuleFirst(stderrBuf) ==
    LET msg == Trim(stderrBuf) IN
    IF HasPattern(msg, "Can't get") \/ HasPattern(msg, "doesn't understand")
        THEN "element_not_found"
    ELSE IF HasPattern(msg, "application isn't running")
            \/ HasPattern(msg, "Application isn't running")
        THEN "app_not_running"
    ELSE IF HasPattern(msg, "not allowed assistive access") \/ HasPattern(msg, "accessibility")
        THEN "accessibility_denied"
    ELSE "unknown"

ClassifyError(stderrBuf) ==
    LET msg == Trim(stderrBuf) IN
    IF HasPattern(msg, "not allowed assistive access") \/ HasPattern(msg, "accessibility")
        THEN "accessibility_denied"
    ELSE IF HasPattern(msg, "application isn't running")
            \/ HasPattern(msg, "Application isn't running")
        THEN "app_not_running"
    ELSE IF HasPattern(msg, "Can't get") \/ HasPattern(msg, "doesn't understand")
        THEN "element_not_found"
    ELSE "unknown"

\* Template-literal rendering of a number: its decimal digits.
RECURSIVE Digits(_)
Digits(n) == IF n < 10 THEN <<n>> ELSE Digits(n \div 10) \o <<n % 10>>

\* The token-qualified sentinel `${SENTINEL}_${id}` as text: the fixed part
\* "__OSASCRIPT_DONE___", then the decimal digits of the token.  A chunk
\* boundary can fall between any two of these.
Sentinel(id) ==
    <<[k |-> "sentinel"]>> \o [i \in DOMAIN Digits(id) |-> [k |-> "digit", d |-> Digits(id)[i]]]

\* The sentinel as the interpreter writes it for request r.  Field r of a
\* token of a stream records the request for which it was emitted; it is not
\* part of the text.
SentinelBytes(r) ==
    [i \in DOMAIN Sentinel(r) |->
        IF Sentinel(r)[i].k = "digit"
            THEN [k |-> "digit", d |-> Sentinel(r)[i].d, r |-> r]
            ELSE [k |-> "sentinel", r |-> r]]

\* The text of token tok is the text p.
Matches(tok, p) == tok.k = p.k /\ (p.k = "digit" => tok.d = p.d)

\* pat occurs in buf at position i.
OccursAt(buf, pat, i) ==
    /\ i + Len(pat) - 1 <= Len(buf)
    /\ \A j \in DOMAIN pat : Matches(buf[i + j - 1], pat[j])

\* String.prototype.indexOf: first position at which pat occurs in buf, 0
\* when absent (positions are 1-based here, so 0 plays the role of -1).
IndexOf(buf, pat) ==
    IF \E i \in DOMAIN buf : OccursAt(buf, pat, i)
        THEN CHOOSE i \in DOMAIN buf :
                /\ OccursAt(buf, pat, i)
                /\ \A j \in 1..(i - 1) : ~OccursAt(buf, pat, j)
        ELSE 0

\* Mutant of OsaHandleLive: the cache check is lost, every call spawns.
OsaHandleNeverLive == FALSE

\* getOsascriptProcess: the cached handle is reused when it is set and the
\* process it names has no exit code yet.
OsaHandleLive == osaProcess # NULL /\ osaProcs[osaProcess].status # "exited"

\* A promise settles once: resolve/reject on a settled promise changes nothing.
\* `settles` counts the invocations of the continuation.
Settle(call, state, kind, output) ==
    IF call.state = "pending"
        THEN [call EXCEPT !.state = state, !.kind = kind, !.output = output,
                          !.settles = @ + 1]
        ELSE [call EXCEPT !.settles = @ + 1]

\* A settled call whose listeners are detached and whose timer is disarmed
\* is unreachable from any callback: its buffers are garbage.
OsaRelease(call) ==
    IF call.state # "pending" /\ ~call.timer /\ ~call.listening
        THEN [call EXCEPT !.stdoutBuf = <<>>, !.stderrBuf = <<>>]
        ELSE call

\* The pipes of a process that no call listens to and that no later call can
\* be attached to (it is not the cached handle) are never read again.
OsaDrain(procs, calls, handle) ==
    [p \in DOMAIN procs |->
        IF p # handle /\ \A c \in DOMAIN calls : ~(calls[c].listening /\ calls[c].proc = p)
            THEN [procs[p] EXCEPT !.stdin = <<>>, !.stdout = <<>>, !.stderr = <<>>]
            ELSE procs[p]]

\* Mutant of OsaCleanup: clearTimeout is forgotten.
OsaCleanupKeepsTimer(call) == [call EXCEPT !.listening = FALSE]

\* runAppleScript's cleanup(): disarm the timer, detach both listeners.
OsaCleanup(call) == [call EXCEPT !.timer = FALSE, !.listening = FALSE]

\* Mutant of OsaNewCall: the deadline timer is never armed.
OsaNewCallNoTimer(proc, id, after) ==
    [state |-> "pending", proc |-> proc, id |-> id,
     stdoutBuf |-> <<>>, stderrBuf |-> <<>>,
     timer |-> FALSE, listening |-> TRUE,
     kind |-> "none", output |-> <<>>, settles |-> 0, after |-> after,
     split |-> FALSE]

\* The pending request runAppleScript creates: timer armed, buffers empty,
\* both listeners attached.  `split` is history kept for a settled call: the
\* sentinel that settled it arrived in more than one chunk.
OsaNewCall(proc, id, after) ==
    [state |-> "pending", proc |-> proc, id |-> id,
     stdoutBuf |-> <<>>, stderrBuf |-> <<>>,
     timer |-> TRUE, listening |-> TRUE,
     kind |-> "none", output |-> <<>>, settles |-> 0, after |-> after,
     split |-> FALSE]

\* Mutant of OnStdout: the side-channel buffer is not consulted.
OnStdoutIgnoringDiagnostics(call, chunk) ==
    LET buf == call.stdoutBuf \o chunk
        sentinelIdx == IndexOf(buf, Sentinel(call.id))
        acc == [call EXCEPT !.stdoutBuf = buf,
                            !.split = sentinelIdx # 0 /\ sentinelIdx <= Len(call.stdoutBuf)]
    IN  IF sentinelIdx # 0
            THEN OsaRelease(Settle(OsaCleanup(acc), "resolved", "none",
                                   Trim(Prefix(buf, sentinelIdx - 1))))
            ELSE acc

\* Mutant of OnStdout: the sentinel is searched in the arriving chunk instead
\* of the accumulated buffer.
OnStdoutPerChunk(call, chunk) ==
    LET buf == call.stdoutBuf \o chunk
        sentinelIdx == IndexOf(chunk, Sentinel(call.id))
        acc == [call EXCEPT !.stdoutBuf = buf, !.split = FALSE]
    IN  IF sentinelIdx # 0
            THEN IF Trim(call.stderrBuf) # <<>>
                    THEN OsaRelease(Settle(OsaCleanup(acc), "rejected",
                                        ClassifyError(call.stderrBuf), <<>>))
                    ELSE OsaRelease(Settle(OsaCleanup(acc), "resolved", "none",
                                        Trim(Prefix(chunk, sentinelIdx - 1))))
            ELSE acc

\* onStdout(chunk)
OnStdout(call, chunk) ==
    LET buf == call.stdoutBuf \o chunk
        sentinelIdx == IndexOf(buf, Sentinel(call.id))
        acc == [call EXCEPT !.stdoutBuf = buf,
                            !.split = sentinelIdx # 0 /\ sentinelIdx <= Len(call.stdoutBuf)]
    IN  IF sentinelIdx # 0
            THEN IF Trim(call.stderrBuf) # <<>>
                    THEN OsaRelease(Settle(OsaCleanup(acc), "rejected",
                                        ClassifyError(call.stderrBuf), <<>>))
                    ELSE OsaRelease(Settle(OsaCleanup(acc), "resolved", "none",
                                        Trim(Prefix(buf, sentinelIdx - 1))))
            ELSE acc

\* Mutant of OnStderr: the chunk replaces the accumulated text.
OnStderrLatestOnly(call, chunk) == [call EXCEPT !.stderrBuf = chunk]

\* onStderr(chunk)
OnStderr(call, chunk) == [call EXCEPT !.stderrBuf = @ \o chunk]

\* Mutant of OsaWrite: the request is sent again behind itself.
OsaWriteTwice(stdin, id) == stdin \o <<id, id>>

\* proc.stdin.write(wrappedScript + "\n"): the wrapped script of the call with
\* token id is appended to what the interpreter has not read yet.
OsaWrite(stdin, id) == Append(stdin, id)

\* spawn("osascript", ...): a running process with empty pipes.
OsaNewProc == [status |-> "running", stdin |-> <<>>, stdout |-> <<>>, stderr |-> <<>>]

\* runAppleScript(script): the synchronous part of a call.
RunAppleScript ==
    /\ ~crashed
    /\ mainPc = "serving"
    /\ Len(osaCalls) + Len(pyCalls) < MaxCalls
    /\ BatchMayCall("osa")
    /\ batch' = BatchIssue("osa", Len(osaCalls) + 1)
    /\ ToolMayCall
    /\ tool' = ToolIssue(Len(osaCalls) + 1)
    /\ LET spawn == ~OsaHandleLive
           procs == IF spawn THEN Append(osaProcs, OsaNewProc) ELSE osaProcs
           proc  == IF spawn THEN Len(procs) ELSE osaProcess
           id    == requestId + 1
       IN  /\ osaProcess' = proc
           /\ requestId' = id
           /\ osaCalls' = Append(osaCalls, OsaNewCall(proc, id, SettledCalls(osaCalls)))
           /\ osaProcs' = [procs EXCEPT ![proc].stdin = OsaWrite(@, id)]
    /\ UNCHANGED pyVars

\* What a script prints for request r: nothing, a result, or text that
\* begins like the sentinel without being it.
OsaOutputs(r) == {<<>>, <<[k |-> "out", r |-> r]>>, <<[k |-> "sentinel", r |-> r]>>}

\* The interpreter executes the oldest unread request: it may print output,
\* may write a diagnostic, and ends with the sentinel line of that request.
OsaInterpret(p) ==
    /\ ~crashed
    /\ osaProcs[p].status = "running"
    /\ osaProcs[p].stdin # <<>>
    /\ LET r == Head(osaProcs[p].stdin) IN
       \E out \in OsaOutputs(r), diag \in DiagTexts \cup {"none"} :
          osaProcs' = [osaProcs EXCEPT
              ![p].stdin = Tail(@),
              ![p].stdout = @ \o out \o SentinelBytes(r) \o <<[k |-> "ws", r |-> r]>>,
              ![p].stderr = @ \o (IF diag = "none" THEN <<>>
                                  ELSE <<[k |-> "diag", r |-> r, m |-> diag]>>)]
    /\ UNCHANGED <<osaProcess, requestId, osaCalls>>
    /\ UNCHANGED pyVars
    /\ UNCHANGED <<batch, tool>>

\* A 'data' event of p's output stream carrying the next n tokens: every
\* attached onStdout runs; without a listener the chunk is lost.
OsaStdoutData(p, n) ==
    /\ ~crashed
    /\ n \in 1..Len(osaProcs[p].stdout)
    /\ LET chunk == Prefix(osaProcs[p].stdout, n) IN
       /\ osaCalls' = [c \in DOMAIN osaCalls |->
              IF osaCalls[c].listening /\ osaCalls[c].proc = p
                  THEN OnStdout(osaCalls[c], chunk) ELSE osaCalls[c]]
       /\ osaProcs' = OsaDrain([osaProcs EXCEPT ![p].stdout = Suffix(@, n)],
                               osaCalls', osaProcess)
    /\ UNCHANGED <<osaProcess, requestId>>
    /\ UNCHANGED pyVars
    /\ UNCHANGED <<batch, tool>>

\* A 'data' event of p's side-channel stream.
OsaStderrData(p, n) ==
    /\ ~crashed
    /\ n \in 1..Len(osaProcs[p].stderr)
    /\ LET chunk == Prefix(osaProcs[p].stderr, n) IN
       /\ osaCalls' = [c \in DOMAIN osaCalls |->
              IF osaCalls[c].listening /\ osaCalls[c].proc = p
                  THEN OnStderr(osaCalls[c], chunk) ELSE osaCalls[c]]
       /\ osaProcs' = [osaProcs EXCEPT ![p].stderr = Suffix(@, n)]
    /\ UNCHANGED <<osaProcess, requestId>>
    /\ UNCHANGED pyVars
    /\ UNCHANGED <<batch, tool>>

\* Mutant of Kill: the timeout handler leaves the process alone.
KillNothing(proc) == proc

\* proc.kill(): SIGTERM is sent; the process exits, and its 'exit' event is
\* delivered, later.  Killing a process that has exited does nothing.
Kill(proc) ==
    IF proc.status = "running" THEN [proc EXCEPT !.status = "killed", !.stdin = <<>>] ELSE proc

\* What the timeout handler leaves in the cached handle.
OsaHandleAfterTimeout(c) == NULL

\* The deadline timer of call c fires.
OsaTimeout(c) ==
    /\ ~crashed
    /\ c \in DOMAIN osaCalls
    /\ osaCalls[c].timer
    /\ osaCalls' = [osaCalls EXCEPT
                        ![c] = OsaRelease(Settle(OsaCleanup(@), "rejected", "timeout", <<>>))]
    /\ osaProcess' = OsaHandleAfterTimeout(c)
    /\ osaProcs' = OsaDrain([osaProcs EXCEPT ![osaCalls[c].proc] = Kill(@)],
                            osaCalls', osaProcess')
    /\ UNCHANGED requestId
    /\ UNCHANGED pyVars
    /\ UNCHANGED <<batch, tool>>

\* Mutant of OsaHandleAfterExit: the 'exit' handler does not clear the handle.
OsaHandleKeptOnExit(p) == osaProcess

\* What the 'exit' handler registered for process p leaves in the cached handle.
OsaHandleAfterExit(p) == NULL

\* Mutant of OsaCallsAfterExit: the 'exit' handler rejects what is pending on p.
OsaCallsRejectedOnExit(p) ==
    [c \in DOMAIN osaCalls |->
        IF osaCalls[c].state = "pending" /\ osaCalls[c].proc = p
            THEN OsaRelease(Settle(OsaCleanup(osaCalls[c]), "rejected", "unknown", <<>>))
            ELSE osaCalls[c]]

\* What the 'exit' handler registered for process p does to the calls: the
\* handler knows no pending request.
OsaCallsAfterExit(p) == osaCalls

\* Process p exits (on its own, by a crash, or after the SIGTERM of a
\* timeout) and its 'exit' event is delivered.  Requests it has not read are
\* lost; what it had written to its pipes can still be delivered.
OsaExit(p) ==
    /\ ~crashed
    /\ p \in DOMAIN osaProcs
    /\ osaProcs[p].status \in {"running", "killed"}
    /\ osaProcess' = OsaHandleAfterExit(p)
    /\ osaCalls' = OsaCallsAfterExit(p)
    /\ osaProcs' = OsaDrain([osaProcs EXCEPT ![p].status = "exited", ![p].stdin = <<>>],
                            osaCalls', osaProcess')
    /\ UNCHANGED requestId
    /\ UNCHANGED pyVars
    /\ UNCHANGED <<batch, tool>>

\* runAppleScript(script) when no live process is cached and the spawn of
\* osascript fails.  spawn() still returns a child object, which is cached
\* and to which the call attaches itself; on the next tick the child emits
\* 'error', for which getOsascriptProcess registers no listener: the event is
\* thrown as an uncaught exception and the server dies with the call pending.
OsaSpawnFailure ==
    /\ ~crashed
    /\ mainPc = "serving"
    /\ Len(osaCalls) + Len(pyCalls) < MaxCalls
    /\ ~OsaHandleLive
    /\ LET proc == Len(osaProcs) + 1
           id   == requestId + 1
       IN  /\ osaProcs' = Append(osaProcs, [OsaNewProc EXCEPT !.status = "failed"])
           /\ osaProcess' = proc
           /\ requestId' = id
           /\ osaCalls' = Append(osaCalls, OsaNewCall(proc, id, SettledCalls(osaCalls)))
    /\ crashed' = TRUE
    /\ UNCHANGED <<helperProcess, pyProcs, pyCalls, mainPc>>
    /\ UNCHANGED <<batch, tool>>

OsaNext ==
    \/ RunAppleScript
    \/ \E p \in DOMAIN osaProcs : OsaInterpret(p)
    \/ \E p \in DOMAIN osaProcs : \E n \in 1..MaxChunk : OsaStdoutData(p, n)
    \/ \E p \in DOMAIN osaProcs : \E n \in 1..MaxChunk : OsaStderrData(p, n)
    \/ \E c \in DOMAIN osaCalls : OsaTimeout(c)
    \/ \E p \in DOMAIN osaProcs : OsaExit(p)

\* ========================================================== code execution

\* getHelper: the cached handle is reused when it is set and the process it
\* names has no exit code yet.
PyHandleLive == helperProcess # NULL /\ pyProcs[helperProcess].status = "running"

\* spawn(VENV_PYTHON, ...): the helper starts importing the frameworks;
\* `ready` is "no" until it has written the marker, "sent" while the marker is
\* in flight, "seen" once startHelper's onStderr has resolved helperReady.
\* `flowing`: the output stream has had a 'data' listener attached.
PyNewProc(status) ==
    [status |-> status, ready |-> "no", flowing |-> FALSE,
     stdin |-> <<>>, stdout |-> <<>>]

\* runPython's cleanup(): disarm the timer, detach the output listener.
PyCleanup(call) == [call EXCEPT !.timer = FALSE, !.listening = FALSE]

\* A call waiting in getHelper on `await helperReady` of process proc.
PyAwaitingCall(proc, after) ==
    [state |-> "awaiting", proc |-> proc, buf |-> <<>>,
     timer |-> FALSE, listening |-> FALSE,
     kind |-> "none", output |-> <<>>, settles |-> 0, after |-> after]

\* A call rejected because startHelper's promise was rejected by 'error'.
PyFailedCall(proc, after) ==
    [PyAwaitingCall(proc, after) EXCEPT
        !.state = "rejected", !.kind = "spawn_failure", !.settles = 1]

\* The promise executor of runPython for the process getHelper returned:
\* arm the timer, attach onData, write the request.  When getHelper returned
\* null, `proc.stdout` throws inside the executor: the promise is rejected
\* with the TypeError and the timer, armed before, stays armed.
PyExecutor(call, proc) ==
    IF proc = NULL
        THEN [call EXCEPT !.state = "rejected", !.kind = "type_error", !.proc = NULL,
                          !.timer = TRUE, !.settles = @ + 1]
        ELSE [call EXCEPT !.state = "pending", !.proc = proc,
                          !.timer = TRUE, !.listening = TRUE]

\* A settled call without listener and timer: its buffer is garbage.
PyRelease(call) ==
    IF call.state # "pending" /\ ~call.timer /\ ~call.listening
        THEN [call EXCEPT !.buf = <<>>]
        ELSE call

\* The lines of the helper's output stream.  "ok" and "err" are the response
\* records {"ok": true, ...} and {"ok": false, ...}; "bad" is a line that is
\* no JSON; "num" is JSON that is no response record (a number, {}); "null"
\* is the JSON text null.
LineKinds == {"ok", "err", "bad", "num", "null"}

\* A line of kind k written for request r: its text, then its newline.  A
\* chunk boundary can fall between the two.
Line(k, r) == <<[k |-> k, r |-> r], [k |-> "nl", r |-> r]>>

\* buf.indexOf("\n"): position of the first newline, 0 when there is none.
NlIndexOf(buf) ==
    IF \E i \in DOMAIN buf : buf[i].k = "nl"
        THEN CHOOSE i \in DOMAIN buf :
                buf[i].k = "nl" /\ \A j \in 1..(i - 1) : buf[j].k # "nl"
        ELSE 0

\* JSON.parse(line) returns instead of throwing: the line is the complete
\* text of one JSON value (the empty string is none).
Parses(line) == Len(line) = 1 /\ line[1].k # "bad"

\* `result.ok` can be read (result is not null) and is truthy.
OkOf(line) == line[1].k = "ok"

\* onData(chunk): only the first complete line of the buffer is looked at.
\* A line that parses runs cleanup() first; reading `.ok` of null then throws
\* inside the try block, so the catch clause drops the line after the
\* listener and the timer are gone.
OnData(call, chunk) ==
    LET buf == call.buf \o chunk
        nlIdx == NlIndexOf(buf)
        acc == [call EXCEPT !.buf = buf]
    IN  IF nlIdx = 0 THEN acc
        ELSE LET line == Prefix(buf, nlIdx - 1) IN
             IF Parses(line)
                THEN IF line[1].k = "null"
                        THEN PyCleanup([call EXCEPT !.buf = Suffix(buf, nlIdx)])
                     ELSE IF OkOf(line)
                        THEN PyRelease(Settle(PyCleanup(acc), "resolved", "none", line))
                        ELSE PyRelease(Settle(PyCleanup(acc), "rejected", "error", line))
                ELSE [call EXCEPT !.buf = Suffix(buf, nlIdx)]

PyDrain(procs, calls, handle) ==
    [p \in DOMAIN procs |->
        IF p # handle /\ \A c \in DOMAIN calls : ~(calls[c].listening /\ calls[c].proc = p)
            THEN [procs[p] EXCEPT !.stdin = <<>>, !.stdout = <<>>]
            ELSE procs[p]]

\* proc.stdin.write(JSON.stringify({ code }) + "\n"): the request line of
\* call c is appended to what the helper has not read yet.
PyWrite(stdin, c) == Append(stdin, c)

\* The requests the calls of `who` write to process proc, in call order.
RECURSIVE Requests(_, _)
Requests(who, n) ==
    IF n = 0 THEN <<>>
    ELSE IF n \in who THEN PyWrite(Requests(who, n - 1), n) ELSE Requests(who, n - 1)

\* Mutant of WarmupCatch: the rejection of getHelper() leaves
\* warmupPythonHelper, which main() does not await: an unhandled rejection.
WarmupUnhandledRejection(ok) == ~ok

\* warmupPythonHelper's try/catch around `await getHelper()`: whether the
\* server dies of the spawn's outcome.  The catch clause is empty.
WarmupCatch(ok) == FALSE

\* warmupPythonHelper(): getHelper() whose result and failure are dropped.
WarmupPythonHelper ==
    /\ ~crashed
    /\ mainPc = "connect"
    /\ mainPc' = "serving"
    /\ IF PyHandleLive
          THEN UNCHANGED <<helperProcess, pyProcs, crashed>>
          ELSE \E ok \in BOOLEAN :
                /\ pyProcs' = Append(pyProcs, PyNewProc(IF ok THEN "running" ELSE "failed"))
                /\ helperProcess' = IF ok THEN Len(pyProcs) + 1 ELSE NULL
                /\ crashed' = WarmupCatch(ok)
    /\ UNCHANGED pyCalls
    /\ UNCHANGED osaVars
    /\ UNCHANGED <<batch, tool>>

\* runPython(code) up to its first suspension: getHelper returns the cached
\* process at once, or starts a helper and waits for its readiness; a spawn
\* that fails emits 'error', which clears the handle and rejects the call.
RunPython ==
    /\ ~crashed
    /\ mainPc = "serving"
    /\ Len(osaCalls) + Len(pyCalls) < MaxCalls
    /\ BatchMayCall("py")
    /\ batch' = BatchIssue("py", Len(pyCalls) + 1)
    /\ UNCHANGED tool
    /\ LET c == Len(pyCalls) + 1
           after == SettledCalls(pyCalls)
       IN  IF PyHandleLive
             THEN /\ pyCalls' = Append(pyCalls,
                                  PyExecutor(PyAwaitingCall(helperProcess, after), helperProcess))
                  /\ pyProcs' = [pyProcs EXCEPT ![helperProcess].stdin = PyWrite(@, c),
                                                ![helperProcess].flowing = TRUE]
                  /\ UNCHANGED helperProcess
             ELSE \E ok \in BOOLEAN :
                  LET p == Len(pyProcs) + 1 IN
                  /\ pyProcs' = Append(pyProcs, PyNewProc(IF ok THEN "running" ELSE "failed"))
                  /\ helperProcess' = IF ok THEN p ELSE NULL
                  /\ pyCalls' = Append(pyCalls, IF ok THEN PyAwaitingCall(p, after)
                                                      ELSE PyFailedCall(p, after))
    /\ UNCHANGED <<mainPc, crashed>>
    /\ UNCHANGED osaVars

\* The helper has imported the frameworks and writes the readiness marker.
PyHelperReady(p) ==
    /\ ~crashed
    /\ pyProcs[p].status = "running"
    /\ pyProcs[p].ready = "no"
    /\ pyProcs' = [pyProcs EXCEPT ![p].ready = "sent"]
    /\ UNCHANGED <<helperProcess, pyCalls, mainPc, crashed>>
    /\ UNCHANGED osaVars
    /\ UNCHANGED <<batch, tool>>

\* startHelper's onStderr sees the marker of p: helperReady is resolved and
\* every call waiting on it continues with `return helperProcess!`.
PyReadyData(p) ==
    /\ ~crashed
    /\ pyProcs[p].ready = "sent"
    /\ LET who == {c \in DOMAIN pyCalls :
                      pyCalls[c].state = "awaiting" /\ pyCalls[c].proc = p}
           h == helperProcess
       IN  /\ pyCalls' = [c \in DOMAIN pyCalls |->
                  IF c \in who THEN PyExecutor(pyCalls[c], h) ELSE pyCalls[c]]
           /\ pyProcs' = [q \in DOMAIN pyProcs |->
                  LET pq == IF q = p THEN [pyProcs[q] EXCEPT !.ready = "seen"] ELSE pyProcs[q]
                  IN  IF q = h /\ who # {}
                        THEN [pq EXCEPT !.stdin = @ \o Requests(who, Len(pyCalls)),
                                        !.flowing = TRUE]
                        ELSE pq]
    /\ UNCHANGED <<helperProcess, mainPc, crashed>>
    /\ UNCHANGED osaVars
    /\ UNCHANGED <<batch, tool>>

\* What the helper writes for one request: its response record, after any
\* line the executed code has put on the real standard output itself.
ResponseShapes ==
    {<<"ok">>, <<"err">>} \cup {<<k, "ok">> : k \in LineKinds \ {"ok", "err"}}

\* The bytes of the lines of `shape`, written for request r.
Lines(shape, r) ==
    IF Len(shape) = 1 THEN Line(shape[1], r)
    ELSE Line(shape[1], r) \o Line(shape[2], r)

\* The request lines the read-eval loop of HELPER_SCRIPT can meet.  A line is
\* blank; or its decoding raises (no JSON, no "code" member); or its code
\* returns; or its code raises an Exception; or its code raises what
\* `except Exception` does not catch (SystemExit, KeyboardInterrupt), which
\* ends the script.
RequestKinds == {"blank", "undecodable", "returns", "raises", "exits"}

\* Mutant of HelperResponses: an exception of the executed code is swallowed
\* without a response.
HelperResponsesSilentOnError(kind, r) ==
    CASE kind = "returns" -> {Lines(shape, r) : shape \in {sh \in ResponseShapes : sh[Len(sh)] = "ok"}}
      [] kind = "undecodable" -> {Line("err", r)}
      [] OTHER -> {<<>>}

\* What one pass of the loop body writes to the real standard output for a
\* line of the given kind: nothing for a blank line (`continue`); otherwise
\* one json.dumps(result) + "\n", after any line the executed code has
\* written there itself.
HelperResponses(kind, r) ==
    CASE kind = "returns" -> {Lines(shape, r) : shape \in {sh \in ResponseShapes : sh[Len(sh)] = "ok"}}
      [] kind \in {"undecodable", "raises"} -> {Line("err", r)}
      [] OTHER -> {<<>>}

\* The read-eval loop of the helper handles the oldest unread request and
\* writes one response record; code that prints to the real standard output
\* puts a line that is no record in front of it.
PyHelperRespond(p) ==
    /\ ~crashed
    /\ pyProcs[p].status = "running"
    /\ pyProcs[p].ready # "no"
    /\ pyProcs[p].stdin # <<>>
    /\ LET r == Head(pyProcs[p].stdin) IN
       \E kind \in {"returns", "raises"} : \E out \in HelperResponses(kind, r) :
          pyProcs' = [pyProcs EXCEPT
              ![p].stdin = Tail(@),
              ![p].stdout = @ \o out]
    /\ UNCHANGED <<helperProcess, pyCalls, mainPc, crashed>>
    /\ UNCHANGED osaVars
    /\ UNCHANGED <<batch, tool>>

\* Mutant of PyListeners: a single-flight dispatcher, only the oldest
\* listening call is handed the chunk.
PyFirstListener(p) ==
    {c \in DOMAIN pyCalls :
        /\ pyCalls[c].listening /\ pyCalls[c].proc = p
        /\ \A d \in 1..(c - 1) : ~(pyCalls[d].listening /\ pyCalls[d].proc = p)}

\* The 'data' listeners registered on p's output stream: the onData of every
\* call that has attached itself and has not run cleanup().
PyListeners(p) == {c \in DOMAIN pyCalls : pyCalls[c].listening /\ pyCalls[c].proc = p}

\* A 'data' event of p's output stream carrying the next n tokens.  Before the
\* first listener is attached the stream is paused and keeps its data.
PyStdoutData(p, n) ==
    /\ ~crashed
    /\ pyProcs[p].flowing
    /\ n \in 1..Len(pyProcs[p].stdout)
    /\ LET chunk == Prefix(pyProcs[p].stdout, n) IN
       /\ pyCalls' = [c \in DOMAIN pyCalls |->
              IF c \in PyListeners(p)
                  THEN OnData(pyCalls[c], chunk) ELSE pyCalls[c]]
       /\ pyProcs' = PyDrain([pyProcs EXCEPT ![p].stdout = Suffix(@, n)],
                             pyCalls', helperProcess)
    /\ UNCHANGED <<helperProcess, mainPc, crashed>>
    /\ UNCHANGED osaVars
    /\ UNCHANGED <<batch, tool>>

\* Mutant of PyHandleAfterTimeout: the timeout discards the helper.
PyHandleClearedOnTimeout(c) == NULL

\* What runPython's timeout handler leaves in the cached handle: it does not
\* touch it.
PyHandleAfterTimeout(c) == helperProcess

\* The deadline timer of call c fires.  For a call whose executor threw,
\* cleanup() throws again, outside any promise: an uncaught exception.
PyTimeout(c) ==
    /\ ~crashed
    /\ c \in DOMAIN pyCalls
    /\ pyCalls[c].timer
    /\ IF pyCalls[c].proc = NULL
          THEN /\ pyCalls' = [pyCalls EXCEPT ![c].timer = FALSE]
               /\ crashed' = TRUE
               /\ UNCHANGED <<pyProcs, helperProcess>>
          ELSE /\ pyCalls' = [pyCalls EXCEPT
                       ![c] = PyRelease(Settle(PyCleanup(@), "rejected", "timeout", <<>>))]
               /\ helperProcess' = PyHandleAfterTimeout(c)
               /\ pyProcs' = PyDrain(pyProcs, pyCalls', helperProcess')
               /\ UNCHANGED crashed
    /\ UNCHANGED mainPc
    /\ UNCHANGED osaVars
    /\ UNCHANGED <<batch, tool>>

\* What the 'exit' handler registered by startHelper leaves in the handle.
PyHandleAfterExit(p) == NULL

\* Helper p exits and its 'exit' event is delivered.
PyExit(p) ==
    /\ ~crashed
    /\ pyProcs[p].status = "running"
    /\ helperProcess' = PyHandleAfterExit(p)
    /\ pyProcs' = PyDrain([pyProcs EXCEPT ![p].status = "exited", ![p].stdin = <<>>],
                          pyCalls, helperProcess')
    /\ UNCHANGED <<pyCalls, mainPc, crashed>>
    /\ UNCHANGED osaVars
    /\ UNCHANGED <<batch, tool>>

PyNext ==
    \/ WarmupPythonHelper
    \/ RunPython
    \/ \E p \in DOMAIN pyProcs : PyHelperReady(p)
    \/ \E p \in DOMAIN pyProcs : PyReadyData(p)
    \/ \E p \in DOMAIN pyProcs : PyHelperRespond(p)
    \/ \E p \in DOMAIN pyProcs : \E n \in 1..PyMaxChunk : PyStdoutData(p, n)
    \/ \E c \in DOMAIN pyCalls : PyTimeout(c)
    \/ \E p \in DOMAIN pyProcs : PyExit(p)

\* ====================================================== batch actions, loop

\* executeAction(actions[i]) for an action whose function reaches no channel:
\* it throws at once, or returns its text at once.
BatchExecuteLocal ==
    /\ ~crashed
    /\ mainPc = "serving"
    /\ batch.pc = "loop"
    /\ batch.i < Len(batch.actions)
    /\ LET a == batch.actions[batch.i + 1]
           b == [batch EXCEPT !.log = Append(@, Event("start", batch.i + 1, "none"))]
       IN  /\ Channel(a) = "none"
           /\ batch' = IF PreError(a) # "none" THEN BatchFailed(b, PreError(a))
                                               ELSE BatchCompleted(b, a)
    /\ UNCHANGED osaVars
    /\ UNCHANGED pyVars
    /\ UNCHANGED tool

\* The channel call the batch awaits has settled: a rejection is thrown out
\* of executeAction; after a resolution the action's function finishes, by
\* returning its text or by throwing.
BatchResume ==
    /\ ~crashed
    /\ batch.pc = "await"
    /\ LET a == batch.actions[batch.i + 1]
           call == IF batch.call.ch = "osa" THEN osaCalls[batch.call.c]
                                           ELSE pyCalls[batch.call.c]
       IN  /\ call.state \in {"resolved", "rejected"}
           /\ IF call.state = "rejected"
                 THEN batch' = BatchFailed(batch, call.kind)
                 ELSE \E post \in PostErrors(a) \cup {"none"} :
                        batch' = IF post = "none" THEN BatchCompleted(batch, a)
                                                  ELSE BatchFailed(batch, post)
    /\ UNCHANGED osaVars
    /\ UNCHANGED pyVars
    /\ UNCHANGED tool

\* The inter-action delay has elapsed.
BatchDelayElapsed ==
    /\ ~crashed
    /\ batch.pc = "delay"
    /\ batch' = [batch EXCEPT !.pc = "loop"]
    /\ UNCHANGED osaVars
    /\ UNCHANGED pyVars
    /\ UNCHANGED tool

\* The 300 ms after the last action have elapsed.
BatchSettleElapsed ==
    /\ ~crashed
    /\ batch.pc = "settle"
    /\ batch' = [batch EXCEPT !.pc = "final"]
    /\ UNCHANGED osaVars
    /\ UNCHANGED pyVars
    /\ UNCHANGED tool

\* captureScreenshot() of the catch clause or of the end of batchActions has
\* settled: with the picture batchActions returns its result; when the
\* capture threw, batchActions rejects and no result is returned.
BatchCapture ==
    /\ ~crashed
    /\ batch.pc \in {"catch", "final"}
    /\ \E captured \in BOOLEAN :
          batch' = [batch EXCEPT
              !.pc = "done",
              !.log = Append(@, Event("shot", batch.i, "batch")),
              !.outcome = IF captured THEN "returned" ELSE "rejected",
              !.result = IF captured THEN BatchResult(batch) ELSE NoResult]
    /\ UNCHANGED osaVars
    /\ UNCHANGED pyVars
    /\ UNCHANGED tool

BatchNext ==
    \/ BatchExecuteLocal
    \/ BatchResume
    \/ BatchDelayElapsed
    \/ BatchSettleElapsed
    \/ BatchCapture

\* ============================================== key and URL tools, steps

\* pressKey, first statement: `if (app) await focusApp(app)`.  focusApp runs
\* `open -a app`, which brings the app to the front or fails; when it fails
\* pressKey throws its error.
PressKeyFocus ==
    /\ ~crashed
    /\ tool.pc = "start"
    /\ tool.name = "pressKey"
    /\ IF Truthy(tool.args.app)
          THEN \E opened \in BOOLEAN :
                 LET t == [tool EXCEPT !.log = Append(@, [e |-> "open", x |-> tool.args.app])]
                 IN  tool' = IF opened THEN [t EXCEPT !.pc = "validate"]
                                       ELSE ToolThrows(t, "open_failed")
          ELSE tool' = [tool EXCEPT !.pc = "validate"]
    /\ UNCHANGED osaVars
    /\ UNCHANGED pyVars
    /\ UNCHANGED batch

\* pressKey from the key lookup to the call of runAppleScript: it throws for
\* an unknown key or modifier, or has built its script.
PressKeyValidate ==
    /\ ~crashed
    /\ tool.pc = "validate"
    /\ LET err == PressKeyError(tool.args.key, tool.args.modifiers)
       IN  tool' = IF err # "none" THEN ToolThrows(tool, err)
                   ELSE [tool EXCEPT !.pc = "script",
                            !.script = PressKeyScript(tool.args.key, tool.args.modifiers)]
    /\ UNCHANGED osaVars
    /\ UNCHANGED pyVars
    /\ UNCHANGED batch

\* openUrl from the scheme test to the call of runAppleScript: it throws for
\* a URL that fails the test, or has built its script.
OpenUrlCheck ==
    /\ ~crashed
    /\ tool.pc = "start"
    /\ tool.name = "openUrl"
    /\ tool' = IF ~SchemeTest(tool.args.url) THEN ToolThrows(tool, "bad_scheme")
               ELSE [tool EXCEPT !.pc = "script",
                        !.script = OpenUrlScript(tool.args.url, tool.args.browser)]
    /\ UNCHANGED osaVars
    /\ UNCHANGED pyVars
    /\ UNCHANGED batch

\* The runAppleScript call the tool function awaits has settled: a rejection
\* is thrown out of the function, after a resolution it returns its text.
ToolResume ==
    /\ ~crashed
    /\ tool.pc = "await"
    /\ osaCalls[tool.call].state \in {"resolved", "rejected"}
    /\ tool' = IF osaCalls[tool.call].state = "rejected"
                  THEN ToolThrows(tool, osaCalls[tool.call].kind)
                  ELSE [tool EXCEPT !.pc = "done", !.outcome = "returned"]
    /\ UNCHANGED osaVars
    /\ UNCHANGED pyVars
    /\ UNCHANGED batch

\* ================================================================== server

Init ==
    /\ osaProcess = NULL
    /\ requestId = 0
    /\ osaProcs = <<>>
    /\ osaCalls = <<>>
    /\ helperProcess = NULL
    /\ pyProcs = <<>>
    /\ pyCalls = <<>>
    /\ mainPc = "connect"
    /\ crashed = FALSE
    /\ batch = BatchIdle
    /\ tool = ToolIdle

Next == OsaNext \/ PyNext

\* The server with both channels.
Spec == Init /\ [][Next]_vars

\* The two channels share no variable: the script-engine channel alone (after
\* main's prewarm), and the code-execution channel alone.
OsaOnly == WarmupPythonHelper \/ OsaNext
SpecOsa == Init /\ [][OsaOnly]_vars
SpecPy == Init /\ [][PyNext]_vars

\* The server when the spawn of osascript can fail as well.
NextSpawn == Next \/ OsaSpawnFailure
SpecSpawn == Init /\ [][NextSpawn]_vars

\* onStdout applied to the sentinel of another call.  Two runAppleScript
\* calls with tokens a < b are pending on the same process (call a's script
\* ended before its sentinel statement, so its sentinel was never written),
\* and the interpreter has written the sentinel line of call b; the chunks of
\* that line are then delivered.
InitTokens ==
    \E a \in 1..MaxId : \E b \in (a + 1)..MaxId :
        /\ osaProcess = 1
        /\ requestId = b
        /\ osaProcs = <<[OsaNewProc EXCEPT
                            !.stdout = SentinelBytes(b) \o <<[k |-> "ws", r |-> b]>>]>>
        /\ osaCalls = <<OsaNewCall(1, a, {}), OsaNewCall(1, b, {})>>
        /\ helperProcess = NULL
        /\ pyProcs = <<PyNewProc("failed")>>
        /\ pyCalls = <<>>
        /\ mainPc = "serving"
        /\ crashed = FALSE
        /\ batch = BatchIdle
        /\ tool = ToolIdle

NextTokens == \E p \in DOMAIN osaProcs : \E n \in 1..MaxChunk : OsaStdoutData(p, n)
SpecTokens == InitTokens /\ [][NextTokens]_vars

\* classifyError applied to composed diagnostic texts.  A runAppleScript call
\* has accumulated a diagnostic text of up to MaxPhrases phrases and blanks;
\* its sentinel then arrives and the call is rejected with the classification
\* of the text.  The accumulated text is kept with the rejected call.
DiagTokens == {[k |-> "diag", r |-> 1, m |-> m] : m \in Phrases} \cup {[k |-> "ws", r |-> 1]}

InitClassify ==
    \E text \in UNION {[1..n -> DiagTokens] : n \in 0..MaxPhrases} :
        /\ osaProcess = 1
        /\ requestId = 1
        /\ osaProcs = <<OsaNewProc>>
        /\ osaCalls = <<[OsaNewCall(1, 1, {}) EXCEPT !.stderrBuf = text]>>
        /\ helperProcess = NULL
        /\ pyProcs = <<PyNewProc("failed")>>
        /\ pyCalls = <<>>
        /\ mainPc = "serving"
        /\ crashed = FALSE
        /\ batch = BatchIdle
        /\ tool = ToolIdle

\* onStdout has found the sentinel of call c and the side channel is not
\* blank: reject(classifyError(stderrBuf)).
RejectClassified(c) ==
    /\ osaCalls[c].state = "pending"
    /\ Trim(osaCalls[c].stderrBuf) # <<>>
    /\ osaCalls' = [osaCalls EXCEPT
            ![c] = Settle(OsaCleanup(@), "rejected", ClassifyError(@.stderrBuf), <<>>)]
    /\ UNCHANGED <<osaProcess, requestId, osaProcs>>
    /\ UNCHANGED pyVars
    /\ UNCHANGED <<batch, tool>>

NextClassify == \E c \in DOMAIN osaCalls : RejectClassified(c)
SpecClassify == InitClassify /\ [][NextClassify]_vars

\* The read-eval loop of HELPER_SCRIPT applied to request lines.
InitHelper ==
    \E n \in 0..MaxRequests : \E kinds \in [1..n -> RequestKinds] :
        /\ osaProcess = NULL
        /\ requestId = 0
        /\ osaProcs = <<>>
        /\ osaCalls = <<>>
        /\ helperProcess = 1
        /\ pyProcs = <<[PyNewProc("running") EXCEPT
                           !.ready = "seen",
                           !.stdin = [i \in 1..n |-> [kind |-> kinds[i], n |-> i]]]>>
        /\ pyCalls = <<>>
        /\ mainPc = "serving"
        /\ crashed = FALSE
        /\ batch = BatchIdle
        /\ tool = ToolIdle

\* One pass of `for line in sys.stdin:` in helper p.
HelperLine(p) ==
    /\ pyProcs[p].status = "running"
    /\ pyProcs[p].stdin # <<>>
    /\ LET req == Head(pyProcs[p].stdin) IN
       IF req.kind = "exits"
          THEN /\ pyProcs' = [pyProcs EXCEPT ![p].status = "exited", ![p].stdin = <<>>]
               /\ helperProcess' = PyHandleAfterExit(p)
          ELSE /\ \E out \in HelperResponses(req.kind, req.n) :
                     pyProcs' = [pyProcs EXCEPT ![p].stdin = Tail(@), ![p].stdout = @ \o out]
               /\ UNCHANGED helperProcess
    /\ UNCHANGED <<pyCalls, mainPc, crashed>>
    /\ UNCHANGED osaVars
    /\ UNCHANGED <<batch, tool>>

NextHelper == \E p \in DOMAIN pyProcs : HelperLine(p)
SpecHelper == InitHelper /\ [][NextHelper]_vars

\* The server handling one batch_actions request: batchActions is called
\* with 1..MaxActions actions and a delay that is zero or positive.
InitBatch ==
    \E n \in 1..MaxActions : \E actions \in [1..n -> BatchInputs] : \E delay \in BOOLEAN :
        /\ osaProcess = NULL
        /\ requestId = 0
        /\ osaProcs = <<>>
        /\ osaCalls = <<>>
        /\ helperProcess = NULL
        /\ pyProcs = <<>>
        /\ pyCalls = <<>>
        /\ mainPc = "connect"
        /\ crashed = FALSE
        /\ batch = BatchNew(actions, delay)
        /\ tool = ToolIdle

\* The channels serve the batch under their coarsest schedule: a 'data'
\* event carries everything the process has written, and a process ends only
\* when a timeout kills it.
NextBatch ==
    \/ WarmupPythonHelper
    \/ RunAppleScript
    \/ RunPython
    \/ \E p \in DOMAIN osaProcs : OsaInterpret(p)
    \/ \E p \in DOMAIN osaProcs : OsaStdoutData(p, Len(osaProcs[p].stdout))
    \/ \E p \in DOMAIN osaProcs : OsaStderrData(p, Len(osaProcs[p].stderr))
    \/ \E c \in DOMAIN osaCalls : OsaTimeout(c)
    \/ \E p \in DOMAIN pyProcs : PyHelperReady(p)
    \/ \E p \in DOMAIN pyProcs : PyReadyData(p)
    \/ \E p \in DOMAIN pyProcs : PyHelperRespond(p)
    \/ \E p \in DOMAIN pyProcs : PyStdoutData(p, Len(pyProcs[p].stdout))
    \/ \E c \in DOMAIN pyCalls : PyTimeout(c)
    \/ BatchNext
SpecBatch == InitBatch /\ [][NextBatch]_vars

\* The server handling one press_key request: pressKey is called with a key
\* name, up to MaxModifiers modifier names and an app argument.  The script
\* engine serves it under its coarsest schedule.
InitPressKey ==
    \E key \in KeyNames : \E app \in AppNames :
    \E modifiers \in UNION {[1..n -> ModifierNames] : n \in 0..MaxModifiers} :
        /\ osaProcess = NULL
        /\ requestId = 0
        /\ osaProcs = <<>>
        /\ osaCalls = <<>>
        /\ helperProcess = NULL
        /\ pyProcs = <<PyNewProc("failed")>>
        /\ pyCalls = <<>>
        /\ mainPc = "serving"
        /\ crashed = FALSE
        /\ batch = BatchIdle
        /\ tool = ToolNew("pressKey", [key |-> key, modifiers |-> modifiers, app |-> app])

NextPressKey ==
    \/ PressKeyFocus
    \/ PressKeyValidate
    \/ RunAppleScript
    \/ \E p \in DOMAIN osaProcs : OsaInterpret(p)
    \/ \E p \in DOMAIN osaProcs : OsaStdoutData(p, Len(osaProcs[p].stdout))
    \/ \E p \in DOMAIN osaProcs : OsaStderrData(p, Len(osaProcs[p].stderr))
    \/ \E c \in DOMAIN osaCalls : OsaTimeout(c)
    \/ ToolResume
SpecPressKey == InitPressKey /\ [][NextPressKey]_vars

\* The server handling one open_url request: openUrl is called with a URL
\* and a browser argument.
InitOpenUrl ==
    \E url \in Urls : \E browser \in Browsers :
        /\ osaProcess = NULL
        /\ requestId = 0
        /\ osaProcs = <<>>
        /\ osaCalls = <<>>
        /\ helperProcess = NULL
        /\ pyProcs = <<PyNewProc("failed")>>
        /\ pyCalls = <<>>
        /\ mainPc = "serving"
        /\ crashed = FALSE
        /\ batch = BatchIdle
        /\ tool = ToolNew("openUrl", [url |-> url, browser |-> browser])

NextOpenUrl ==
    \/ OpenUrlCheck
    \/ RunAppleScript
    \/ \E p \in DOMAIN osaProcs : OsaInterpret(p)
    \/ \E p \in DOMAIN osaProcs : OsaStdoutData(p, Len(osaProcs[p].stdout))
    \/ \E p \in DOMAIN osaProcs : OsaStderrData(p, Len(osaProcs[p].stderr))
    \/ \E c \in DOMAIN osaCalls : OsaTimeout(c)
    \/ ToolResume
SpecOpenUrl == InitOpenUrl /\ [][NextOpenUrl]_vars

\* The event loop runs every armed timer whose delay has elapsed: nothing
\* else is assumed, the interpreters may stop at any point.
OsaTimers == \A c \in 1..MaxCalls : WF_vars(OsaTimeout(c))
PyTimers == \A c \in 1..MaxCalls : WF_vars(PyTimeout(c))
FairOsa == SpecOsa /\ OsaTimers
FairPy == SpecPy /\ PyTimers

\* ================================================================== claims

Settled(call) == call.state \in {"resolved", "rejected"}

\* Spawned processes of each channel that have not exited.
OsaNotExited == {p \in DOMAIN osaProcs : osaProcs[p].status \in {"running", "killed"}}
PyNotExited == {p \in DOMAIN pyProcs : pyProcs[p].status = "running"}

\* C1: on each channel at most one spawned interpreter process that has not
\* yet exited exists at any time.
C1_AtMostOneLiveProcess ==
    /\ Cardinality(OsaNotExited) <= 1
    /\ Cardinality(PyNotExited) <= 1

\* C2: no request is written to a helper's input stream before the readiness
\* marker of that helper has been observed: a helper with an unread request
\* in its input pipe is one whose marker startHelper has seen.
C2_NoRequestBeforeReady ==
    \A p \in DOMAIN pyProcs : pyProcs[p].stdin # <<>> => pyProcs[p].ready = "seen"

\* C3: a runPython call submitted after an earlier call had settled is never
\* resolved or rejected from the response record the helper emitted for that
\* earlier call's request.
C3_NoStaleResponse ==
    \A c2 \in DOMAIN pyCalls :
        pyCalls[c2].output # <<>> => pyCalls[c2].output[1].r \notin pyCalls[c2].after

\* C4: a runAppleScript call submitted after an earlier call had settled never
\* accumulates, on either stream, bytes the interpreter emitted in response to
\* that earlier call.
C4_NoCrossTalk ==
    \A c2 \in DOMAIN osaCalls :
        /\ \A i \in DOMAIN osaCalls[c2].stdoutBuf :
              osaCalls[c2].stdoutBuf[i].r \notin osaCalls[c2].after
        /\ \A i \in DOMAIN osaCalls[c2].stderrBuf :
              osaCalls[c2].stderrBuf[i].r \notin osaCalls[c2].after

\* C5: the continuation of a call is invoked exactly once: a settled call has
\* had one resolve/reject, and no later step invokes it again or changes the
\* call's outcome.
C5_SettledExactlyOnce ==
    [][/\ \A c \in DOMAIN osaCalls :
              Settled(osaCalls[c]) =>
                  /\ osaCalls'[c].state = osaCalls[c].state
                  /\ osaCalls'[c].kind = osaCalls[c].kind
                  /\ osaCalls'[c].output = osaCalls[c].output
       /\ \A c \in DOMAIN pyCalls :
              Settled(pyCalls[c]) =>
                  /\ pyCalls'[c].state = pyCalls[c].state
                  /\ pyCalls'[c].kind = pyCalls[c].kind
                  /\ pyCalls'[c].output = pyCalls[c].output
       /\ \A c \in DOMAIN osaCalls' :
              osaCalls'[c].settles = IF Settled(osaCalls'[c]) THEN 1 ELSE 0
       /\ \A c \in DOMAIN pyCalls' :
              pyCalls'[c].settles = IF Settled(pyCalls'[c]) THEN 1 ELSE 0]_vars

\* A call of each channel was settled and its interpreter exited afterwards.
C5_Witness ==
    /\ \E c \in DOMAIN osaCalls :
          osaCalls[c].state = "resolved" /\ osaProcs[osaCalls[c].proc].status = "exited"
    /\ \E c \in DOMAIN pyCalls :
          /\ pyCalls[c].state = "rejected" /\ pyCalls[c].kind = "timeout"
          /\ pyProcs[pyCalls[c].proc].status = "exited"

C7_EveryCallSettles ==
    \A c \in 1..MaxCalls :
        (c \in DOMAIN pyCalls) ~> (c \in DOMAIN pyCalls /\ Settled(pyCalls[c]))

\* C8: an exit (or the forced kill of a timeout) clears the cached handle; a
\* call submitted while no live process is cached spawns exactly one process,
\* which becomes the cached one and is the one the call is bound to; the
\* script engine receives the request at once, the helper when its readiness
\* marker arrives.
C8_RespawnOnNextCall ==
    [][/\ \A p \in DOMAIN osaProcs :
              (osaProcs[p].status # osaProcs'[p].status) => osaProcess' = NULL
       /\ \A p \in DOMAIN pyProcs :
              (pyProcs[p].status # pyProcs'[p].status) => helperProcess' = NULL
       /\ (/\ Len(osaCalls') = Len(osaCalls) + 1
           /\ ~(osaProcess # NULL /\ osaProcs[osaProcess].status # "exited"))
              => LET c == Len(osaCalls') IN
                 /\ Len(osaProcs') = Len(osaProcs) + 1
                 /\ osaProcess' = Len(osaProcs')
                 /\ osaCalls'[c].proc = osaProcess'
                 /\ osaProcs'[osaProcess'].status = "running"
                 /\ osaProcs'[osaProcess'].stdin = <<osaCalls'[c].id>>
       /\ (/\ Len(pyCalls') = Len(pyCalls) + 1
           /\ ~(helperProcess # NULL /\ pyProcs[helperProcess].status \notin {"exited", "failed"}))
              => LET c == Len(pyCalls') IN
                 /\ Len(pyProcs') = Len(pyProcs) + 1
                 /\ pyCalls'[c].proc = Len(pyProcs')
                 /\ \/ /\ pyProcs'[Len(pyProcs')].status = "running"
                       /\ helperProcess' = Len(pyProcs')
                       /\ pyCalls'[c].state = "awaiting"
                    \/ /\ pyProcs'[Len(pyProcs')].status = "failed"
                       /\ helperProcess' = NULL
                       /\ pyCalls'[c].state = "rejected"
       /\ \A c \in DOMAIN pyCalls :
              (/\ pyCalls[c].state = "awaiting"
               /\ pyCalls'[c].state # "awaiting"
               /\ pyProcs[pyCalls[c].proc].status = "running")
                  => /\ pyCalls'[c].state = "pending"
                     /\ pyCalls'[c].proc = pyCalls[c].proc
                     /\ \E i \in DOMAIN pyProcs'[pyCalls[c].proc].stdin :
                           pyProcs'[pyCalls[c].proc].stdin[i] = c]_vars

\* The first script-engine call timed out (forced kill); the second one was
\* resolved from the output of the process it spawned.
C8_Witness ==
    /\ Len(osaCalls) = 2
    /\ osaCalls[1].kind = "timeout"
    /\ osaCalls[2].proc = 2
    /\ osaCalls[2].state = "resolved"
    /\ osaCalls[2].output = <<[k |-> "out", r |-> 2]>>

\* C9: a call that finds a cached process without exit code is bound to that
\* process, and neither the set of spawned processes nor the handle changes.
C9_ReuseLiveProcess ==
    [][/\ (/\ Len(osaCalls') = Len(osaCalls) + 1
           /\ osaProcess # NULL
           /\ osaProcs[osaProcess].status # "exited")
              => /\ Len(osaProcs') = Len(osaProcs)
                 /\ osaProcess' = osaProcess
                 /\ osaCalls'[Len(osaCalls')].proc = osaProcess
       /\ (/\ Len(pyCalls') = Len(pyCalls) + 1 \/ mainPc' # mainPc
           /\ helperProcess # NULL
           /\ pyProcs[helperProcess].status \notin {"exited", "failed"})
              => /\ Len(pyProcs') = Len(pyProcs)
                 /\ helperProcess' = helperProcess
                 /\ Len(pyCalls') = Len(pyCalls) + 1
                       => pyCalls'[Len(pyCalls')].proc = helperProcess]_vars

\* Two script-engine calls were written to the same process.
C9_Witness ==
    /\ Len(osaCalls) = 2
    /\ Len(osaProcs) = 1
    /\ osaCalls[1].proc = 1
    /\ osaCalls[2].proc = 1

\* C10: a runAppleScript call that has accumulated non-whitespace side-channel
\* bytes is never resolved: when its sentinel is found it is rejected with the
\* classification of those bytes.
C10_DiagnosticPrecedence ==
    [][\A c \in DOMAIN osaCalls :
          (/\ osaCalls[c].state = "pending"
           /\ Settled(osaCalls'[c])
           /\ \E i \in DOMAIN osaCalls[c].stderrBuf : osaCalls[c].stderrBuf[i].k # "ws")
              => /\ osaCalls'[c].state = "rejected"
                 /\ osaCalls'[c].kind # "timeout"
                       => osaCalls'[c].kind = ClassifyError(osaCalls[c].stderrBuf)]_vars

\* A call whose sentinel arrived after a diagnostic was rejected as classified.
C10_Witness ==
    \E c \in DOMAIN osaCalls :
        osaCalls[c].state = "rejected" /\ osaCalls[c].kind = "accessibility_denied"

\* C11: whatever the chunking of the output stream, a runAppleScript call that
\* has received no side-channel bytes when its sentinel is found is resolved,
\* and a call is resolved with exactly the trimmed text that precedes the
\* first occurrence of its token-qualified sentinel in the stream it receives:
\* the result holds neither the sentinel nor anything that follows it.
C11_ExactOutput ==
    [][\A c \in DOMAIN osaCalls :
          LET call == osaCalls[c]
              stream == call.stdoutBuf \o osaProcs[call.proc].stdout
              idx == IndexOf(stream, Sentinel(call.id))
          IN  /\ (call.state = "pending" /\ osaCalls'[c].state = "resolved")
                    => /\ idx # 0
                       /\ osaCalls'[c].output = Trim(Prefix(stream, idx - 1))
                       /\ IndexOf(osaCalls'[c].output, Sentinel(call.id)) = 0
                       /\ \A i \in DOMAIN osaCalls'[c].output :
                             ~(/\ osaCalls'[c].output[i].k = "digit"
                               /\ osaCalls'[c].output[i].r = call.id)
              /\ (/\ call.state = "pending"
                  /\ call.stderrBuf = <<>>
                  /\ Settled(osaCalls'[c])
                  /\ osaCalls'[c].kind # "timeout")
                    => osaCalls'[c].state = "resolved"]_vars

\* A call was resolved with the script's output although its sentinel was cut
\* in two by a chunk boundary.
C11_Witness ==
    \E c \in DOMAIN osaCalls :
        /\ osaCalls[c].state = "resolved"
        /\ osaCalls[c].split
        /\ osaCalls[c].output = <<[k |-> "out", r |-> osaCalls[c].id]>>

\* C12: when the deadline of a pending runAppleScript call fires, the process
\* the call was written to is terminated (it is no longer running), the call
\* is rejected with kind timeout, and its listeners and timer are gone.
C12_TimeoutKills ==
    [][\A c \in DOMAIN osaCalls :
          (/\ osaCalls[c].state = "pending"
           /\ osaCalls[c].timer
           /\ ~osaCalls'[c].timer
           /\ IndexOf(osaCalls[c].stdoutBuf \o osaProcs[osaCalls[c].proc].stdout,
                      Sentinel(osaCalls[c].id)) = 0)
              => /\ osaCalls'[c].state = "rejected"
                 /\ osaCalls'[c].kind = "timeout"
                 /\ ~osaCalls'[c].listening
                 /\ osaProcs'[osaCalls[c].proc].status \in {"killed", "exited"}
                 /\ osaProcs[osaCalls[c].proc].status = "running"
                       => osaProcs'[osaCalls[c].proc].status = "killed"]_vars

\* A call was rejected by its deadline and the process it was written to has
\* been sent the kill signal and has not exited yet.
C12_Witness ==
    \E c \in DOMAIN osaCalls :
        /\ osaCalls[c].state = "rejected"
        /\ osaCalls[c].kind = "timeout"
        /\ ~osaCalls[c].listening
        /\ osaProcs[osaCalls[c].proc].status = "killed"

\* C13: when the deadline of a pending runPython call fires, the call is
\* rejected and loses its own listener, and nothing else changes: no helper
\* changes status, the cached handle and the other calls' listeners and
\* timers stay as they are; a runPython call submitted afterwards, while the
\* helper of the timed-out call is still cached and running, is written to
\* that same process and spawns nothing.
C13_TimeoutKeepsHelper ==
    [][/\ \A c \in DOMAIN pyCalls :
              (pyCalls[c].state = "pending" /\ pyCalls'[c].kind = "timeout")
                  => /\ pyCalls'[c].state = "rejected"
                     /\ ~pyCalls'[c].listening
                     /\ helperProcess' = helperProcess
                     /\ Len(pyProcs') = Len(pyProcs)
                     /\ \A p \in DOMAIN pyProcs : pyProcs'[p].status = pyProcs[p].status
                     /\ \A d \in DOMAIN pyCalls \ {c} :
                           /\ pyCalls'[d].listening = pyCalls[d].listening
                           /\ pyCalls'[d].timer = pyCalls[d].timer
                           /\ pyCalls'[d].state = pyCalls[d].state
       /\ (/\ Len(pyCalls') = Len(pyCalls) + 1
           /\ \E c \in DOMAIN pyCalls :
                 /\ pyCalls[c].kind = "timeout"
                 /\ pyCalls[c].proc = helperProcess
                 /\ pyProcs[helperProcess].status = "running")
              => /\ Len(pyProcs') = Len(pyProcs)
                 /\ helperProcess' = helperProcess
                 /\ pyCalls'[Len(pyCalls')].proc = helperProcess
                 /\ pyProcs'[helperProcess].stdin
                       = Append(pyProcs[helperProcess].stdin, Len(pyCalls'))]_vars

\* The first call timed out; the second one was written to the same, only
\* helper process and was resolved from the response to its own request.
C13_Witness ==
    /\ Len(pyCalls) = 2
    /\ Len(pyProcs) = 1
    /\ pyCalls[1].kind = "timeout"
    /\ pyCalls[2].proc = pyCalls[1].proc
    /\ pyCalls[2].state = "resolved"
    /\ pyCalls[2].output = <<[k |-> "ok", r |-> 2]>>

\* C14: whatever the chunking, a runPython call that has received a malformed
\* line immediately followed by a complete valid response record is settled
\* from that record: its deadline never fires while the record is the next
\* line of its buffer.
C14_ResyncOnNextLine ==
    [][\A c \in DOMAIN pyCalls :
          (pyCalls[c].state = "pending" /\ pyCalls'[c].kind = "timeout")
              => ~(/\ Len(pyCalls[c].buf) >= 2
                   /\ pyCalls[c].buf[1].k \in {"ok", "err"}
                   /\ pyCalls[c].buf[2].k = "nl")]_vars

\* C15: a runPython call is rejected only by a decoded response record with
\* ok = false, by its deadline, or because the helper could not be started.
C15_RejectionReasons ==
    \A c \in DOMAIN pyCalls :
        pyCalls[c].state = "rejected"
            => \/ pyCalls[c].kind = "error" /\ pyCalls[c].output[1].k = "err"
               \/ pyCalls[c].kind = "timeout"
               \/ pyCalls[c].kind = "spawn_failure"

IsPrefix(a, b) == Len(a) <= Len(b) /\ Prefix(b, Len(a)) = a

\* C16 as stated: while a call is pending, on either channel, the previous
\* content of its accumulation buffer is a prefix of the new content.
C16_AppendOnly ==
    [][/\ \A c \in DOMAIN osaCalls :
              (osaCalls[c].state = "pending" /\ osaCalls'[c].state = "pending")
                  => /\ IsPrefix(osaCalls[c].stdoutBuf, osaCalls'[c].stdoutBuf)
                     /\ IsPrefix(osaCalls[c].stderrBuf, osaCalls'[c].stderrBuf)
       /\ \A c \in DOMAIN pyCalls :
              (pyCalls[c].state = "pending" /\ pyCalls'[c].state = "pending")
                  => IsPrefix(pyCalls[c].buf, pyCalls'[c].buf)]_vars

\* C16 (amended): while a call is pending, a script-engine buffer changes only
\* by a chunk of the process's stream being appended at its end; the
\* code-execution buffer changes by a chunk being appended and, when the
\* buffer then starts with a complete line that yields no response record,
\* by that one line being removed from its front.
C16_AppendOrDropLine ==
    [][/\ \A c \in DOMAIN osaCalls :
              (osaCalls[c].state = "pending" /\ osaCalls'[c].state = "pending")
                  => /\ \E n \in 0..Len(osaProcs[osaCalls[c].proc].stdout) :
                           osaCalls'[c].stdoutBuf = osaCalls[c].stdoutBuf
                               \o Prefix(osaProcs[osaCalls[c].proc].stdout, n)
                     /\ \E n \in 0..Len(osaProcs[osaCalls[c].proc].stderr) :
                           osaCalls'[c].stderrBuf = osaCalls[c].stderrBuf
                               \o Prefix(osaProcs[osaCalls[c].proc].stderr, n)
       /\ \A c \in DOMAIN pyCalls :
              (pyCalls[c].state = "pending" /\ pyCalls'[c].state = "pending")
                  => \E n \in 0..Len(pyProcs[pyCalls[c].proc].stdout) :
                        LET b == pyCalls[c].buf \o Prefix(pyProcs[pyCalls[c].proc].stdout, n)
                            nl == NlIndexOf(b)
                        IN  \/ pyCalls'[c].buf = b
                            \/ /\ nl # 0
                               /\ \A i \in 1..(nl - 1) : b[i].k \notin {"ok", "err", "num"}
                               /\ pyCalls'[c].buf = Suffix(b, nl)]_vars

\* A script-engine call is accumulating on both streams, and a code-execution
\* call is pending with a complete record in its buffer: the malformed line
\* that preceded it in the same chunk has been removed from the front.
C16_Witness ==
    /\ \E c \in DOMAIN osaCalls :
          /\ osaCalls[c].state = "pending"
          /\ osaCalls[c].stdoutBuf # <<>>
          /\ osaCalls[c].stderrBuf # <<>>
    /\ \E c \in DOMAIN pyCalls :
          /\ pyCalls[c].state = "pending"
          /\ pyCalls[c].listening
          /\ pyCalls[c].buf = Line("ok", c)

\* C17 as stated: the exit event of the interpreter settles no call, and a
\* call that is pending when its interpreter has exited is settled by nothing
\* but its own deadline.
C17_OnlyDeadlineAfterExit ==
    [][/\ \A c \in DOMAIN osaCalls :
              /\ (/\ osaProcs[osaCalls[c].proc].status # "exited"
                  /\ osaProcs'[osaCalls[c].proc].status = "exited")
                    => osaCalls'[c].state = osaCalls[c].state
              /\ (/\ osaCalls[c].state = "pending"
                  /\ osaProcs[osaCalls[c].proc].status = "exited"
                  /\ Settled(osaCalls'[c]))
                    => osaCalls'[c].kind = "timeout"
       /\ \A c \in DOMAIN pyCalls :
              pyCalls[c].state = "pending" =>
              /\ (/\ pyProcs[pyCalls[c].proc].status # "exited"
                  /\ pyProcs'[pyCalls[c].proc].status = "exited")
                    => pyCalls'[c].state = pyCalls[c].state
              /\ (/\ pyProcs[pyCalls[c].proc].status = "exited"
                  /\ Settled(pyCalls'[c]))
                    => pyCalls'[c].kind = "timeout"]_vars

\* C17 (amended): the exit event of the interpreter neither settles a pending
\* call nor touches its timer, listeners and buffers; a call that is pending
\* when its interpreter has exited is settled either by a chunk the
\* interpreter had written before it exited, or by its own deadline, and
\* that deadline stays armed for as long as the call listens.
C17_ExitSettlesNothing ==
    /\ [][ /\ \A c \in DOMAIN osaCalls :
                  /\ (/\ osaProcs[osaCalls[c].proc].status # "exited"
                      /\ osaProcs'[osaCalls[c].proc].status = "exited")
                        => osaCalls'[c] = osaCalls[c]
                  /\ (/\ osaCalls[c].state = "pending"
                      /\ osaProcs[osaCalls[c].proc].status = "exited"
                      /\ Settled(osaCalls'[c]))
                        => \/ osaCalls'[c].kind = "timeout"
                           \/ /\ osaProcs[osaCalls[c].proc].stdout # <<>>
                              /\ Len(osaProcs'[osaCalls[c].proc].stdout)
                                    < Len(osaProcs[osaCalls[c].proc].stdout)
           /\ \A c \in DOMAIN pyCalls :
                  pyCalls[c].state = "pending" =>
                  /\ (/\ pyProcs[pyCalls[c].proc].status # "exited"
                      /\ pyProcs'[pyCalls[c].proc].status = "exited")
                        => pyCalls'[c] = pyCalls[c]
                  /\ (/\ pyProcs[pyCalls[c].proc].status = "exited"
                      /\ Settled(pyCalls'[c]))
                        => \/ pyCalls'[c].kind = "timeout"
                           \/ /\ pyProcs[pyCalls[c].proc].stdout # <<>>
                              /\ Len(pyProcs'[pyCalls[c].proc].stdout)
                                    < Len(pyProcs[pyCalls[c].proc].stdout)]_vars
    /\ []( /\ \A c \in DOMAIN osaCalls :
                (osaCalls[c].state = "pending" /\ osaCalls[c].listening) => osaCalls[c].timer
           /\ \A c \in DOMAIN pyCalls :
                (pyCalls[c].state = "pending" /\ pyCalls[c].listening) => pyCalls[c].timer)

\* On each channel a call is still pending, with its deadline armed, after
\* the interpreter it was written to has exited and its exit event has been
\* handled.
C17_Witness ==
    /\ \E c \in DOMAIN osaCalls :
          /\ osaCalls[c].state = "pending"
          /\ osaCalls[c].timer
          /\ osaProcs[osaCalls[c].proc].status = "exited"
          /\ osaProcess = NULL
    /\ \E c \in DOMAIN pyCalls :
          /\ pyCalls[c].state = "pending"
          /\ pyCalls[c].timer
          /\ pyProcs[pyCalls[c].proc].status = "exited"
          /\ helperProcess = NULL

\* C18: when the spawn of the interpreter fails, the call that asked for it
\* is rejected, and the cached handle does not name the process that failed
\* to start, so that the next call spawns afresh.
C18_SpawnFailureReported ==
    /\ \A c \in DOMAIN osaCalls :
          osaProcs[osaCalls[c].proc].status = "failed" => osaCalls[c].state = "rejected"
    /\ \A c \in DOMAIN pyCalls :
          (pyCalls[c].proc # NULL /\ pyProcs[pyCalls[c].proc].status = "failed")
              => pyCalls[c].state = "rejected" /\ pyCalls[c].kind = "spawn_failure"
    /\ osaProcess # NULL => osaProcs[osaProcess].status # "failed"
    /\ helperProcess # NULL => pyProcs[helperProcess].status # "failed"

\* Calls of each channel that have been submitted and are not settled.
OsaInFlight == {c \in DOMAIN osaCalls : osaCalls[c].state = "pending"}
PyInFlight == {c \in DOMAIN pyCalls : pyCalls[c].state \in {"awaiting", "pending"}}

\* C19: at most one call is in flight on each channel at any time.
C19_SingleFlight ==
    /\ Cardinality(OsaInFlight) <= 1
    /\ Cardinality(PyInFlight) <= 1

\* C20: two runPython calls that listen on the same helper with the same
\* buffer content are treated alike by every chunk: what settles one settles
\* the other with the same record, so one of them is settled with the record
\* the helper wrote for the other's request.
C20_FanOut ==
    [][\A c1 \in DOMAIN pyCalls : \A c2 \in DOMAIN pyCalls :
          (/\ c1 # c2
           /\ pyCalls[c1].state = "pending" /\ pyCalls[c1].listening
           /\ pyCalls[c2].state = "pending" /\ pyCalls[c2].listening
           /\ pyCalls[c1].proc = pyCalls[c2].proc
           /\ pyCalls[c1].buf = pyCalls[c2].buf
           /\ pyCalls'[c1].kind # "timeout" /\ pyCalls'[c2].kind # "timeout")
              => /\ pyCalls'[c1].state = pyCalls'[c2].state
                 /\ pyCalls'[c1].output = pyCalls'[c2].output
                 /\ pyCalls'[c1].listening = pyCalls'[c2].listening
                 /\ pyCalls'[c1].output # <<>>
                       => \E c \in {c1, c2} : pyCalls'[c].output[1].r # c]_vars

\* The second call was submitted while the first was in flight, and was
\* resolved with the response to the first call's request.
C20_Witness ==
    /\ Len(pyCalls) = 2
    /\ 1 \notin pyCalls[2].after
    /\ pyCalls[2].state = "resolved"
    /\ pyCalls[2].output = <<[k |-> "ok", r |-> 1]>>
    /\ pyCalls[1].output = <<[k |-> "ok", r |-> 1]>>

\* The stream holds the sentinel that the interpreter wrote for request id.
HoldsSentinelOf(stream, id) ==
    \E i \in DOMAIN stream :
        /\ i + Len(SentinelBytes(id)) - 1 <= Len(stream)
        /\ \A j \in DOMAIN SentinelBytes(id) : stream[i + j - 1] = SentinelBytes(id)[j]

\* C21: the correlation tokens of the calls of a server run are pairwise
\* different, the counter never decreases and a new call takes the next
\* value, and a pending call is settled by a chunk of the output stream only
\* when the stream holds the sentinel written for that call itself.
C21_OwnSentinelOnly ==
    /\ [](\A c1 \in DOMAIN osaCalls : \A c2 \in DOMAIN osaCalls :
              c1 # c2 => osaCalls[c1].id # osaCalls[c2].id)
    /\ [][ /\ requestId' >= requestId
           /\ Len(osaCalls') > Len(osaCalls)
                 => /\ requestId' = requestId + 1
                    /\ osaCalls'[Len(osaCalls')].id = requestId'
           /\ \A c \in DOMAIN osaCalls :
                 (/\ osaCalls[c].state = "pending"
                  /\ Settled(osaCalls'[c])
                  /\ osaCalls'[c].kind # "timeout")
                    => HoldsSentinelOf(osaCalls[c].stdoutBuf
                                           \o osaProcs[osaCalls[c].proc].stdout,
                                       osaCalls[c].id)]_vars

\* Number of times request x stands in the unread input s.
Count(s, x) == Cardinality({i \in DOMAIN s : s[i] = x})

\* C22: the channels perform no retries.  The step in which a call reaches
\* its write appends its request once to the input of its process and to no
\* other; in every other step, in particular in and after the step that
\* rejects the call (diagnostic, error response, timeout), no input stream
\* gains a copy of its request.
C22_NoRetries ==
    [][ /\ \A c \in DOMAIN osaCalls' : \A p \in DOMAIN osaProcs' :
              LET id == osaCalls'[c].id
                  before == IF p \in DOMAIN osaProcs THEN Count(osaProcs[p].stdin, id) ELSE 0
                  after == Count(osaProcs'[p].stdin, id)
              IN  IF c \notin DOMAIN osaCalls /\ p = osaCalls'[c].proc
                     THEN after = before + 1 /\ before = 0
                     ELSE after <= before
        /\ \A c \in DOMAIN pyCalls' : \A p \in DOMAIN pyProcs' :
              LET before == IF p \in DOMAIN pyProcs THEN Count(pyProcs[p].stdin, c) ELSE 0
                  after == Count(pyProcs'[p].stdin, c)
                  written == /\ pyCalls'[c].state = "pending"
                             /\ (c \in DOMAIN pyCalls => pyCalls[c].state = "awaiting")
              IN  IF written /\ p = pyCalls'[c].proc
                     THEN after = before + 1 /\ before = 0
                     ELSE after <= before
      ]_vars

\* A call of each channel was rejected after its request had been written (by
\* a diagnostic or the deadline; by an error response), and its request
\* stands in no input stream.
C22_Witness ==
    /\ \E c \in DOMAIN osaCalls :
          /\ osaCalls[c].state = "rejected"
          /\ \A p \in DOMAIN osaProcs : Count(osaProcs[p].stdin, osaCalls[c].id) = 0
    /\ \E c \in DOMAIN pyCalls :
          /\ pyCalls[c].state = "rejected" /\ pyCalls[c].kind = "error"
          /\ \A p \in DOMAIN pyProcs : Count(pyProcs[p].stdin, c) = 0

\* C23: the prewarm only ensures that a helper exists.  Its step creates no
\* call, so it registers no output listener and nothing is rejected; the
\* helper it leaves has no request in its input and an output stream without
\* listener; a spawn that fails is swallowed, the server keeps running with an
\* empty handle, and the next runPython call, finding no live handle, spawns
\* a helper of its own.
C23_PrewarmOnlyEnsuresHelper ==
    [][ /\ (mainPc = "connect" /\ mainPc' = "serving") =>
              /\ pyCalls' = pyCalls
              /\ crashed' = crashed
              /\ \A p \in DOMAIN pyProcs' :
                    IF p \in DOMAIN pyProcs
                       THEN pyProcs'[p] = pyProcs[p]
                       ELSE /\ pyProcs'[p].stdin = <<>>
                            /\ ~pyProcs'[p].flowing
                            /\ pyProcs'[p].status = "failed" => helperProcess' = NULL
        /\ (Len(pyCalls') > Len(pyCalls) /\ helperProcess = NULL) =>
              /\ Len(pyProcs') = Len(pyProcs) + 1
              /\ pyCalls'[Len(pyCalls')].proc = Len(pyProcs')
      ]_vars

\* The prewarm's spawn failed and the first runPython call has spawned the
\* second helper itself; the server is running.
C23_Witness ==
    /\ ~crashed
    /\ Len(pyProcs) >= 2
    /\ pyProcs[1].status = "failed"
    /\ pyProcs[2].status = "running"
    /\ pyCalls # <<>>
    /\ pyCalls[1].proc = 2

\* The step spawns a process of the script-engine channel and caches it.
OsaSpawnStep == Len(osaProcs') = Len(osaProcs) + 1 /\ osaProcess' = Len(osaProcs')

\* The step delivers the 'exit' event of a script-engine process.
OsaExitStep ==
    \E p \in DOMAIN osaProcs : osaProcs[p].status # "exited" /\ osaProcs'[p].status = "exited"

\* The step spawns a helper and caches it, or the spawn fails and the 'error'
\* handler clears the handle.
PySpawnStep ==
    /\ Len(pyProcs') = Len(pyProcs) + 1
    /\ helperProcess' = IF pyProcs'[Len(pyProcs')].status = "failed" THEN NULL ELSE Len(pyProcs')

\* The step delivers the 'exit' event of a helper.
PyExitStep ==
    \E p \in DOMAIN pyProcs : pyProcs[p].status # "exited" /\ pyProcs'[p].status = "exited"

\* The cached handle of the code-execution channel changes only in a spawn
\* step and in the exit/error handlers.
PyHandleFrame == [][helperProcess' # helperProcess => PySpawnStep \/ PyExitStep]_vars

\* C24: the cached handle of a channel changes only in the supervisor's spawn
\* step and in the handlers of a process's exit/error events; no other step
\* of a call, in particular the handling of its timeout, assigns it.
C24_HandleFrame ==
    /\ [][osaProcess' # osaProcess => OsaSpawnStep \/ OsaExitStep]_vars
    /\ PyHandleFrame

\* The diagnostic text holds the phrase.
Holds(text, phrase) == \E i \in DOMAIN text : text[i].k = "diag" /\ text[i].m = phrase

\* C25: classifyError applies its rules in a fixed order and the first that
\* matches wins: accessibility_denied when the text holds "not allowed
\* assistive access" or "accessibility"; otherwise app_not_running when it
\* holds "application isn't running" or "Application isn't running";
\* otherwise element_not_found when it holds "Can't get" or "doesn't
\* understand"; otherwise unknown.  It never yields timeout.
C25_FirstMatchingRule ==
    \A c \in DOMAIN osaCalls :
        LET text == osaCalls[c].stderrBuf
            kind == osaCalls[c].kind
        IN  osaCalls[c].state = "rejected" =>
              /\ kind # "timeout"
              /\ kind = "accessibility_denied" <=>
                    (Holds(text, "not allowed assistive access") \/ Holds(text, "accessibility"))
              /\ kind = "app_not_running" <=>
                    /\ ~(Holds(text, "not allowed assistive access") \/ Holds(text, "accessibility"))
                    /\ Holds(text, "application isn't running")
                           \/ Holds(text, "Application isn't running")
              /\ kind = "element_not_found" <=>
                    /\ ~(Holds(text, "not allowed assistive access") \/ Holds(text, "accessibility"))
                    /\ ~(Holds(text, "application isn't running")
                           \/ Holds(text, "Application isn't running"))
                    /\ Holds(text, "Can't get") \/ Holds(text, "doesn't understand")
              /\ kind \in {"accessibility_denied", "app_not_running",
                            "element_not_found", "unknown"}

\* A text that matches the first and the third rule was classified by the
\* first.
C25_Witness ==
    \E c \in DOMAIN osaCalls :
        /\ osaCalls[c].state = "rejected"
        /\ Holds(osaCalls[c].stderrBuf, "Can't get")
        /\ Holds(osaCalls[c].stderrBuf, "accessibility")
        /\ osaCalls[c].kind = "accessibility_denied"

\* C26: when the first complete line of what a runPython call has received
\* decodes, the call is settled by the line's `ok` tag in the step that
\* completes the line: resolved with the record when the tag is true,
\* otherwise rejected (unclassified) with the record's error; its listener is
\* detached and its timer disarmed.
C26_SettledByTag ==
    [][\A p \in DOMAIN pyProcs : \A n \in 1..PyMaxChunk :
          PyStdoutData(p, n) =>
             \A c \in PyListeners(p) :
                LET buf == pyCalls[c].buf \o Prefix(pyProcs[p].stdout, n)
                    nlIdx == NlIndexOf(buf)
                    line == Prefix(buf, nlIdx - 1)
                IN  (nlIdx # 0 /\ Parses(line)) =>
                       /\ ~pyCalls'[c].listening
                       /\ ~pyCalls'[c].timer
                       /\ pyCalls'[c].output = line
                       /\ IF OkOf(line)
                             THEN pyCalls'[c].state = "resolved"
                             ELSE pyCalls'[c].state = "rejected" /\ pyCalls'[c].kind = "error"
      ]_vars

\* The response records (lines with an `ok` member) among the tokens.
Records(toks) == {i \in DOMAIN toks : toks[i].k \in {"ok", "err"}}

Events(e) == {k \in DOMAIN batch.log : batch.log[k].e = e}

\* C28: batchActions stops on the first error.  Once action n has failed, no
\* action behind it is started, and the result batchActions returns has
\* success = false, actionsCompleted = the 0-based index of the failed action,
\* results = the texts of the actions before it in order, and error = the
\* text of the failure.
C28_StopsOnFirstError ==
    \A k \in Events("fail") :
        LET n == batch.log[k].n IN
        /\ \A j \in Events("start") : batch.log[j].n <= n /\ j < k
        /\ Cardinality(Events("fail")) = 1
        /\ batch.outcome = "returned" =>
              /\ batch.result.success = FALSE
              /\ batch.result.actionsCompleted = n - 1
              /\ batch.result.actionsTotal = Len(batch.actions)
              /\ batch.result.results = [m \in 1..(n - 1) |-> Text(batch.actions[m])]
              /\ batch.result.error = batch.log[k].x

\* The second action of a batch failed after the first had returned its
\* text, and batchActions has returned.
C28_Witness ==
    /\ batch.outcome = "returned"
    /\ \E k \in Events("fail") : batch.log[k].n = 2
    /\ Len(batch.result.results) = 1

\* The channel calls made for the batch that have not settled.
BatchInFlight ==
    {k \in DOMAIN batch.issued :
        LET call == IF batch.issued[k].ch = "osa" THEN osaCalls[batch.issued[k].c]
                                                 ELSE pyCalls[batch.issued[k].c]
        IN  call.state \notin {"resolved", "rejected"}}

\* C29: batchActions executes its actions one after the other in array
\* order: the actions started are 1, 2, ... in this order, an action is
\* started only after the one before it has returned, and at most one
\* channel call made for the batch is unsettled at any time.
C29_Sequential ==
    /\ \A j \in Events("start") :
          LET n == batch.log[j].n IN
          /\ n = Cardinality({k \in Events("start") : k <= j})
          /\ n > 1 => \E k \in Events("end") : k < j /\ batch.log[k].n = n - 1
    /\ Cardinality(BatchInFlight) <= 1

\* The batch has made its second channel call, which is unsettled; the first
\* one is settled.
C29_Witness ==
    /\ Len(batch.issued) = 2
    /\ BatchInFlight = {2}

\* C30: one batchActions call makes exactly one screenshot capture, after
\* the last action it executes: while the batch runs none has been made,
\* click, double_click and click_element make none, and when the batch is done
\* the capture is the last of its events; batchActions returns only with the
\* picture of that capture.
C30_OneScreenshot ==
    /\ batch.pc # "done" => Events("shot") = {}
    /\ batch.pc = "done" => Events("shot") = {Len(batch.log)}
    /\ \A k \in Events("shot") :
          /\ batch.log[k].x = "batch"
          /\ batch.log[k].n = Cardinality(Events("end"))

\* A batch of a click and a click_element, both executed, has returned: its
\* only capture is the one after them.
C30_Witness ==
    /\ batch.outcome = "returned"
    /\ \E j, k \in Events("end") :
          /\ batch.log[j].x = "click"
          /\ batch.log[k].x = "click_element"
    /\ Cardinality(Events("shot")) = 1

\* C31: on the script-engine channel the cached handle is cleared only on
\* behalf of the process it refers to: no step (the exit event of a replaced
\* process, the timeout of a call written to an earlier process) clears a
\* handle whose process is still running after the step.
C31_ClearedForOwnProcessOnly ==
    [][~(/\ osaProcess # NULL
         /\ osaProcess' = NULL
         /\ osaProcs'[osaProcess].status = "running")]_vars

\* The script-engine part of C32.
OsaListenersMatchPending ==
    /\ \A c \in DOMAIN osaCalls :
          Settled(osaCalls[c]) => ~osaCalls[c].listening /\ ~osaCalls[c].timer
    /\ \A p \in DOMAIN osaProcs :
          Cardinality({c \in DOMAIN osaCalls : osaCalls[c].listening /\ osaCalls[c].proc = p})
            = Cardinality({c \in DOMAIN osaCalls :
                              osaCalls[c].state = "pending" /\ osaCalls[c].proc = p})

\* C32: a settled call has no listener registered and its deadline timer is
\* disarmed, and on each process the number of registered per-call
\* listeners equals the number of calls pending on it.
C32_ListenersMatchPending ==
    /\ OsaListenersMatchPending
    /\ \A c \in DOMAIN pyCalls :
          Settled(pyCalls[c]) => ~pyCalls[c].listening /\ ~pyCalls[c].timer
    /\ \A p \in DOMAIN pyProcs :
          Cardinality(PyListeners(p))
            = Cardinality({c \in DOMAIN pyCalls :
                              pyCalls[c].state = "pending" /\ pyCalls[c].proc = p})

\* C33: every BatchResult returned by batchActions has
\* results.length = actionsCompleted <= actionsTotal = the number of
\* submitted actions, success exactly when actionsCompleted = actionsTotal,
\* and an error member exactly when success is false.
C33_ResultConsistent ==
    batch.outcome = "returned" =>
        LET r == batch.result IN
        /\ Len(r.results) = r.actionsCompleted
        /\ r.actionsCompleted <= r.actionsTotal
        /\ r.actionsTotal = Len(batch.actions)
        /\ r.success <=> (r.actionsCompleted = r.actionsTotal)
        /\ (r.error # "none") <=> ~r.success

\* batchActions has returned the result of a batch of two actions whose
\* second action failed: one text, one action completed, an error member.
C33_Witness ==
    /\ batch.outcome = "returned"
    /\ ~batch.result.success
    /\ batch.result.actionsCompleted = 1
    /\ batch.result.actionsTotal = 2
    /\ batch.result.error # "none"

\* batchActions has returned the result of a batch whose actions all
\* completed.
C33_WitnessSuccess ==
    /\ batch.outcome = "returned"
    /\ batch.result.success
    /\ Len(batch.result.results) = 2

\* C34: when an action of a batch fails, batchActions still returns a
\* BatchResult reporting the failure and the partial results; the call never
\* rejects, whatever the screenshot capture does.
C34_FailureNeverRejects ==
    (batch.pc = "done" /\ Events("fail") # {}) =>
        /\ batch.outcome = "returned"
        /\ ~batch.result.success
        /\ batch.result.results = batch.results

\* The pressKey call in progress was given a key name that KEY_CODES does not
\* hold or a modifier name that MODIFIER_MAP does not hold.
PressKeyInvalid ==
    /\ tool.name = "pressKey"
    /\ \/ ToLowerCase(tool.args.key) \notin DOMAIN KEY_CODES
       \/ \E k \in DOMAIN tool.args.modifiers :
            ToLowerCase(tool.args.modifiers[k]) \notin DOMAIN MODIFIER_MAP

\* C35: pressKey validates before acting.  For an unknown key name or an
\* unknown modifier it throws, and it has then submitted no script to the
\* script engine and performed no other side effect: the given app was not
\* focused.
C35_ValidatesBeforeActing ==
    PressKeyInvalid =>
        /\ tool.log = <<>>
        /\ osaCalls = <<>>
        /\ tool.pc = "done" =>
              /\ tool.outcome = "rejected"
              /\ tool.error \in {"unknown_key", "unknown_modifier"}

\* The same without the app argument and without names of inherited
\* properties: pressKey throws and has done nothing.
C35_WithoutApp ==
    (/\ PressKeyInvalid
     /\ ~Truthy(tool.args.app)
     /\ ToLowerCase(tool.args.key) \notin ObjectPrototype
     /\ \A k \in DOMAIN tool.args.modifiers :
            ToLowerCase(tool.args.modifiers[k]) \notin ObjectPrototype) =>
        /\ tool.log = <<>>
        /\ osaCalls = <<>>
        /\ tool.pc = "done" =>
              /\ tool.outcome = "rejected"
              /\ tool.error \in {"unknown_key", "unknown_modifier"}

\* The app was focused and pressKey then threw for the key.
C35_FocusedThenThrew ==
    /\ tool.pc = "done"
    /\ tool.error = "unknown_key"
    /\ tool.log # <<>>

\* A script was submitted for a key name that KEY_CODES does not hold.
C35_InheritedKeySubmitted ==
    /\ PressKeyInvalid
    /\ ~Truthy(tool.args.app)
    /\ Len(osaCalls) = 1

\* Text url begins with http:// or https://, letters in either case.
HasHttpScheme(url) ==
    \E n \in {7, 8} :
        /\ Len(url) >= n
        /\ [k \in 1..n |-> Fold(url[k])]
              \in {<<"h", "t", "t", "p", ":", "/", "/">>,
                   <<"h", "t", "t", "p", "s", ":", "/", "/">>}

\* C36: openUrl accepts only URLs that start with http:// or https://, in
\* either case.  Such a URL is never refused for its scheme; for any other
\* URL openUrl throws before a script is submitted to the script engine: no
\* call is made, no process is spawned, no browser is told to activate.
C36_HttpOnly ==
    tool.name = "openUrl" =>
        IF HasHttpScheme(tool.args.url)
        THEN /\ tool.error # "bad_scheme"
             /\ tool.pc \in {"await", "done"} =>
                   tool.log = <<[e |-> "script",
                                 x |-> OpenUrlScript(tool.args.url, tool.args.browser)]>>
        ELSE /\ tool.pc \in {"start", "done"}
             /\ tool.log = <<>>
             /\ osaCalls = <<>>
             /\ osaProcs = <<>>
             /\ osaProcess = NULL
             /\ tool.pc = "done" => tool.outcome = "rejected" /\ tool.error = "bad_scheme"

\* openUrl has thrown for a text that holds "http://" behind another scheme,
\* and nothing was submitted.
C36_Witness ==
    /\ tool.name = "openUrl"
    /\ tool.pc = "done"
    /\ tool.error = "bad_scheme"
    /\ Len(tool.args.url) > 9
    /\ Head(tool.args.url) = "f"
    /\ osaProcs = <<>>

\* openUrl has submitted its script for a URL whose scheme is in upper case.
C36_WitnessAccepted ==
    /\ tool.name = "openUrl"
    /\ tool.pc = "done"
    /\ tool.outcome = "returned"
    /\ tool.args.url # <<>>
    /\ Head(tool.args.url) = "H"

====
